---------------------------- MODULE Spec2Model ----------------------------
(***************************************************************************)
(* State-machine model of the chat-bot plugins of saias-bot:               *)
(*   bots/party.py        the per-room party registry (PARTY_STATE)        *)
(*   bots/user_system.py  check-in, shop, lottery over the users database  *)
(*                                                                         *)
(* Strings of the source that are not ASCII are written in ASCII here:     *)
(*   "Party" is the default title, "RaidParty" the raid default title.     *)
(* Python's None is the string "None"; a dictionary key that is absent     *)
(* from a member record is the string "NoKey"; True/False stored in a      *)
(* member record are the strings "True"/"False".                           *)
(***************************************************************************)
EXTENDS Integers, Sequences, FiniteSets, TLC

\* ------------------------------------------------------------------ bounds
NumUsers == 2
NumRooms == 2
MaxDay == 1
MaxLive == 2
MaxExtra == 3

Users == 1..NumUsers
Rooms == 1..NumRooms
Days == 0..MaxDay

\* None where a date is expected (_PARTY_STATE_DATE of party.py:20, the NULL of
\* last_checkin_date and last_chat_date): no date, nor the eve of one
NoDate == -2

None == "None"
NoKey == "NoKey"

VARIABLES
  PARTY_STATE,
  PARTY_STATE_DATE,
  today,
  users,
  items,
  item_seq,
  inventory,
  lotto,
  announced,
  inflight,
  party_threads,
  PARTY_LOCK,
  GAME_369_STATE,
  game_dicts,
  turn_threads,
  escaped,
  tick,
  scheduler,
  draw_log,
  font_call,
  personal_images,
  last_saved

partyVars == <<PARTY_STATE, PARTY_STATE_DATE>>

\* the party commands that are being handled on their own threads, and the
\* thread that holds PARTY_LOCK (0 when the lock is free)
raceVars == <<party_threads, PARTY_LOCK>>

\* the 369 game: the room's entry in GAME_369_STATE refers to a state dict; the
\* dicts live in game_dicts under their identities, because a handler keeps the
\* dict it fetched even after the room's entry is popped; turn_threads are the
\* turn messages being handled on their own threads
gameVars == <<GAME_369_STATE, game_dicts, turn_threads>>

\* the handlers out of which an exception has propagated to the host that
\* called them
hostVars == <<escaped>>

\* the lottery scheduler: the time of day in ticks since midnight (the date
\* being today), the scheduler thread's position and target, and the times at
\* which the thread has called execute_probability_draw
schedVars == <<tick, scheduler, draw_log>>

\* iris.db: the tables users, items (with its AUTOINCREMENT counter), inventory
\* and lotto; the winning number last sent to each room; and the check-in
\* handlers that have read their user row and not yet written it
userVars == <<users, items, item_seq, inventory, lotto, announced, inflight>>

\* text2image: the call of get_max_font_size that is running (its arguments
\* and the locals low, high and best_size), and table personal_images of
\* iris.db, from sender_id to the stored PNG; last_saved records, for each
\* sender (chat.sender.id), the image and the chat of the sender's latest
\* save_personal_image that returned
imageVars == <<font_call, personal_images, last_saved>>

vars == <<PARTY_STATE, PARTY_STATE_DATE, today, users, items, item_seq,
          inventory, lotto, announced, inflight, party_threads, PARTY_LOCK,
          GAME_369_STATE, game_dicts, turn_threads, escaped, tick, scheduler,
          draw_log, font_call, personal_images, last_saved>>

\* ------------------------------------------------------- dictionary helpers
EmptyDict == [k \in {} |-> None]

\* no call of get_max_font_size has been made
NoCall == [pc |-> "idle"]

DictSet(d, k, v) == [x \in (DOMAIN d) \cup {k} |-> IF x = k THEN v ELSE d[x]]

DictPop(d, k) == [x \in (DOMAIN d) \ {k} |-> d[x]]

\* PARTY_STATE.get(room_id): the room's party map, or an empty one
RoomParties(ps, r) == IF r \in DOMAIN ps THEN ps[r] ELSE EmptyDict

\* sender.name is unset in the modelled host, so _get_user_name gives "User<id>"
UserNames == <<"User1", "User2", "User3", "User4">>

GetUserName(u) == UserNames[u]

\* ------------------------------------------------------------ pure helpers
RECURSIVE NextFree(_, _)
NextFree(pid, used_ids) ==
  IF pid \in used_ids THEN NextFree(pid + 1, used_ids) ELSE pid

\* mutant of NextPartyId: the number of parties of the room plus one
NextPartyId_Count(ps, r) == Cardinality(DOMAIN RoomParties(ps, r)) + 1

\* _next_party_id: the lowest number from 1 not used by a party of the room
NextPartyId(ps, r) ==
  LET room_parties == RoomParties(ps, r)
      used_ids == {room_parties[o].party_id : o \in DOMAIN room_parties}
  IN  NextFree(1, used_ids)

\* _parse_main_flag on a lower-cased token
ParseMainFlag(t) ==
  IF t \in {"m", "main"} THEN "True"
  ELSE IF t \in {"s", "sub", "alt"} THEN "False"
  ELSE None

RECURSIVE ExtractClsAndMainFrom(_, _, _)
ExtractClsAndMainFrom(tokens, cls, main_flag) ==
  IF tokens = <<>> THEN <<cls, main_flag>>
  ELSE LET t == Head(tokens)
           flag == ParseMainFlag(t)
       IN  IF flag # None
           THEN ExtractClsAndMainFrom(Tail(tokens), cls, flag)
           ELSE IF cls = None
                THEN ExtractClsAndMainFrom(Tail(tokens), t, main_flag)
                ELSE ExtractClsAndMainFrom(Tail(tokens), cls, main_flag)

\* _extract_cls_and_main: <<cls, main_flag>>
ExtractClsAndMain(tokens) == ExtractClsAndMainFrom(tokens, None, None)

RECURSIVE DropTrailingFlags(_)
DropTrailingFlags(tokens) ==
  IF tokens # <<>> /\ ParseMainFlag(tokens[Len(tokens)]) # None
  THEN DropTrailingFlags(SubSeq(tokens, 1, Len(tokens) - 1))
  ELSE tokens

\* _parse_party_create_args: <<title, cls>>; the title is the sequence of its
\* tokens, <<"Party">> standing for the default title
ParsePartyCreateArgs(param) ==
  LET tokens == DropTrailingFlags(param)
  IN  IF tokens = <<>> THEN <<(<<"Party">>), None>>
      ELSE IF Len(tokens) >= 2
           THEN <<SubSeq(tokens, 1, Len(tokens) - 1), tokens[Len(tokens)]>>
           ELSE <<tokens, None>>

\* a daily reset that takes the new date and keeps the parties
EnsureTodayState_Keep(ps, d, now_date) == <<ps, now_date>>

\* _ensure_today_state: <<PARTY_STATE, _PARTY_STATE_DATE>> after the call
EnsureTodayState(ps, d, now_date) ==
  IF d = NoDate THEN <<ps, now_date>>
  ELSE IF d # now_date THEN <<EmptyDict, now_date>>
  ELSE <<ps, d>>

\* a delete or leave that keeps the emptied room
PopRoomIfEmpty_Keep(ps, r) == ps

\* `if not room_parties: PARTY_STATE.pop(room_id, None)`
PopRoomIfEmpty(ps, r) ==
  IF r \in DOMAIN ps /\ DOMAIN ps[r] = {} THEN DictPop(ps, r) ELSE ps


\* A chat token: a run of digits (isdigit(), its int() in n) or a word (text in w)
Num(n) == [num |-> TRUE, n |-> n, w |-> ""]

Word(w) == [num |-> FALSE, n |-> 0, w |-> w]

WordsOf(tokens) == [i \in 1..Len(tokens) |-> tokens[i].w]

\* str.lower() on the names and tokens of the model
Lower(s) ==
  CASE s = "User1" -> "user1"
    [] s = "User2" -> "user2"
    [] s = "User3" -> "user3"
    [] s = "User4" -> "user4"
    [] OTHER -> s

\* _find_party_by_owner_name: exact match first, then containment; no token of
\* JoinParams is a proper part of an owner name, so containment is equality
\* and at most one owner matches.  0 stands for None.
FindPartyByOwnerName(room_parties, name) ==
  LET norm == Lower(name)
      hits == {o \in DOMAIN room_parties :
                 Lower(room_parties[o].owner_name) = norm}
  IN  IF hits = {} THEN 0 ELSE CHOOSE o \in hits : TRUE

\* ------------------------------------------------------------ party records
Member(id, name, cls, is_main) ==
  [id |-> id, name |-> name, cls |-> cls, is_main |-> is_main]

\* the dictionary create_party / create_raid_party stores under owner_id
NewParty(party_id, title, max_members, owner_id, owner_name, cls, is_raid) ==
  [party_id |-> party_id,
   title |-> title,
   max_members |-> max_members,
   members |-> <<Member(owner_id, owner_name, cls, "True")>>,
   owner_id |-> owner_id,
   owner_name |-> owner_name,
   is_raid |-> is_raid]

\* mutant of CreateIn: the `if owner_id in room_parties` check is missing
CreateIn_NoOwnerCheck(ps, r, u, title, cls, max_members, is_raid) ==
  LET room_parties == RoomParties(ps, r)
  IN  [ps |-> DictSet(ps, r,
                DictSet(room_parties, u,
                  NewParty(NextFree(1, {room_parties[o].party_id :
                                          o \in DOMAIN room_parties}),
                           title, max_members, u, GetUserName(u), cls, is_raid))),
       reply |-> "create:ok"]

\* the branch of create_party / create_raid_party taken under PARTY_LOCK:
\* the registry and the reply after it
CreateIn(ps, r, u, title, cls, max_members, is_raid) ==
  LET room_parties == RoomParties(ps, r)
      ps1 == DictSet(ps, r, room_parties)
  IN  IF u \in DOMAIN room_parties
      THEN [ps |-> ps1, reply |-> "create:already"]
      ELSE [ps |-> DictSet(ps1, r,
                     DictSet(room_parties, u,
                       NewParty(NextPartyId(ps1, r), title, max_members,
                                u, GetUserName(u), cls, is_raid))),
            reply |-> "create:ok"]

\* delete_party under PARTY_LOCK
\* delete_party that drops every party of the room
DeleteIn_WholeRoom(ps, r, u) ==
  LET room_parties == RoomParties(ps, r)
  IN  IF DOMAIN room_parties = {}
      THEN [ps |-> ps, reply |-> "delete:none"]
      ELSE [ps |-> DictPop(ps, r), reply |-> "delete:ok"]

DeleteIn(ps, r, u) ==
  LET room_parties == RoomParties(ps, r)
  IN  IF DOMAIN room_parties = {}
      THEN [ps |-> ps, reply |-> "delete:none"]
      ELSE IF u \notin DOMAIN room_parties
           THEN [ps |-> ps, reply |-> "delete:notowner"]
           ELSE [ps |-> PopRoomIfEmpty(DictSet(ps, r, DictPop(room_parties, u)), r),
                 reply |-> "delete:ok"]

\* add_member_by_master under PARTY_LOCK; param is the sequence of words
AddMemberIn(ps, r, u, param) ==
  LET room_parties == RoomParties(ps, r)
  IN  IF u \notin DOMAIN room_parties
      THEN [ps |-> ps, reply |-> "add:noparty"]
      ELSE IF param = <<>>
      THEN [ps |-> ps, reply |-> "add:usage"]
      ELSE
        LET party == room_parties[u]
            parsed == IF Len(param) >= 2
                      THEN ExtractClsAndMain(Tail(param))
                      ELSE <<None, None>>
            new_member == Member(0, param[1], parsed[1],
                                 IF parsed[2] # None THEN parsed[2] ELSE NoKey)
        IN  IF Len(party.members) >= party.max_members
            THEN [ps |-> ps, reply |-> "add:full"]
            ELSE [ps |-> [ps EXCEPT ![r][u].members = Append(@, new_member)],
                  reply |-> "add:ok"]

\* list.pop(i) with a 0-based index i
ListPop(l, i) == SubSeq(l, 1, i) \o SubSeq(l, i + 2, Len(l))

\* mutant of KickIn: the `if target_idx == 1` protection of the owner is missing
KickIn_NoOwnerGuard(ps, r, u, param) ==
  LET room_parties == RoomParties(ps, r)
      real_idx == param.n - 1
  IN  IF u \notin DOMAIN room_parties
      THEN [ps |-> ps, reply |-> "kick:noparty"]
      ELSE IF ~param.num
      THEN [ps |-> ps, reply |-> "kick:usage"]
      ELSE IF real_idx < 0 \/ real_idx >= Len(room_parties[u].members)
      THEN [ps |-> ps, reply |-> "kick:nomember"]
      ELSE [ps |-> [ps EXCEPT ![r][u].members = ListPop(@, real_idx)],
            reply |-> "kick:ok"]

\* mutant of KickIn: pops the last member instead of the member at real_idx
KickIn_PopLast(ps, r, u, param) ==
  LET room_parties == RoomParties(ps, r)
  IN  IF u \notin DOMAIN room_parties
      THEN [ps |-> ps, reply |-> "kick:noparty"]
      ELSE IF ~param.num
      THEN [ps |-> ps, reply |-> "kick:usage"]
      ELSE IF param.n = 1
      THEN [ps |-> ps, reply |-> "kick:owner"]
      ELSE
        LET real_idx == param.n - 1
        IN  IF real_idx < 0 \/ real_idx >= Len(room_parties[u].members)
            THEN [ps |-> ps, reply |-> "kick:nomember"]
            ELSE [ps |-> [ps EXCEPT ![r][u].members =
                                      ListPop(@, Len(room_parties[u].members) - 1)],
                  reply |-> "kick:ok"]

\* kick_member under PARTY_LOCK; param is one token
KickIn(ps, r, u, param) ==
  LET room_parties == RoomParties(ps, r)
  IN  IF u \notin DOMAIN room_parties
      THEN [ps |-> ps, reply |-> "kick:noparty"]
      ELSE IF ~param.num
      THEN [ps |-> ps, reply |-> "kick:usage"]
      ELSE IF param.n = 1
      THEN [ps |-> ps, reply |-> "kick:owner"]
      ELSE
        LET real_idx == param.n - 1
        IN  IF real_idx < 0 \/ real_idx >= Len(room_parties[u].members)
            THEN [ps |-> ps, reply |-> "kick:nomember"]
            ELSE [ps |-> [ps EXCEPT ![r][u].members = ListPop(@, real_idx)],
                  reply |-> "kick:ok"]

\* join_party, step 1: the party the tokens select and the parsed <<cls, is_main>>.
\* err # "" is the reply of the early return; owner is the key of the party.
JoinTarget(room_parties, tokens) ==
  LET only == CHOOSE o \in DOMAIN room_parties : TRUE
      fail(e) == [err |-> e, owner |-> 0, parsed |-> <<None, None>>]
      pick(o, rest) == [err |-> "", owner |-> o,
                        parsed |-> ExtractClsAndMain(WordsOf(rest))]
  IN  IF tokens # <<>>
      THEN IF tokens[1].num
           THEN LET hits == {o \in DOMAIN room_parties :
                               room_parties[o].party_id = tokens[1].n}
                IN  IF hits = {} THEN fail("join:noid")
                    ELSE pick(CHOOSE o \in hits : TRUE, Tail(tokens))
           ELSE IF Cardinality(DOMAIN room_parties) = 1
                THEN pick(only, tokens)
                ELSE LET o == FindPartyByOwnerName(room_parties, tokens[1].w)
                     IN  IF o = 0 THEN fail("join:many")
                         ELSE pick(o, Tail(tokens))
      ELSE IF Cardinality(DOMAIN room_parties) = 1
           THEN pick(only, <<>>)
           ELSE fail("join:list")

\* index (1-based) of the first member with this id, 0 when there is none
ExistingIndex(members, user_id) ==
  LET idx == {i \in 1..Len(members) : members[i].id = user_id}
  IN  IF idx = {} THEN 0 ELSE CHOOSE i \in idx : \A j \in idx : i <= j

\* join_party under PARTY_LOCK, from the selected party on: `existing` is the
\* index found by the loop over the members, `full` the capacity test
\* join_party writing the class of an existing member also when none is given
JoinSelected_ClsAlways(ps, r, u, t, existing_index, full) ==
  LET party == ps[r][t.owner]
      cls == t.parsed[1]
      is_main == t.parsed[2]
  IN  IF existing_index # 0
      THEN [ps |-> [ps EXCEPT ![r][t.owner].members[existing_index].cls = cls],
            reply |-> "join:show"]
      ELSE IF full
      THEN [ps |-> ps, reply |-> "join:full"]
      ELSE [ps |-> [ps EXCEPT ![r][t.owner].members =
                      Append(@, Member(u, GetUserName(u), cls,
                                       IF is_main # None THEN is_main ELSE "True"))],
            reply |-> "join:ok"]

JoinSelected(ps, r, u, t, existing_index, full) ==
  LET party == ps[r][t.owner]
      cls == t.parsed[1]
      is_main == t.parsed[2]
  IN  IF existing_index # 0
      THEN
        LET member == party.members[existing_index]
            m1 == IF cls # None THEN [member EXCEPT !.cls = cls] ELSE member
            m2 == IF is_main # None THEN [m1 EXCEPT !.is_main = is_main] ELSE m1
        IN  [ps |-> [ps EXCEPT ![r][t.owner].members[existing_index] = m2],
             reply |-> IF cls # None /\ cls # member.cls THEN "join:cls"
                       ELSE IF is_main # None /\ is_main # member.is_main THEN "join:position"
                       ELSE IF cls # None \/ is_main # None THEN "join:same"
                       ELSE "join:show"]
      ELSE IF full
      THEN [ps |-> ps, reply |-> "join:full"]
      ELSE
        LET member == Member(u, GetUserName(u), cls,
                             IF is_main # None THEN is_main ELSE "True")
        IN  [ps |-> [ps EXCEPT ![r][t.owner].members = Append(@, member)],
             reply |-> "join:ok"]

\* mutant of JoinIn: the capacity test is `>` instead of `>=`
JoinIn_OffByOne(ps, r, u, tokens) ==
  LET room_parties == RoomParties(ps, r)
      t == JoinTarget(room_parties, tokens)
  IN  IF DOMAIN room_parties = {} THEN [ps |-> ps, reply |-> "join:none"]
      ELSE IF t.err # "" THEN [ps |-> ps, reply |-> t.err]
      ELSE JoinSelected(ps, r, u, t,
             ExistingIndex(room_parties[t.owner].members, u),
             Len(room_parties[t.owner].members) > room_parties[t.owner].max_members)

\* mutant of JoinIn: the search for the sender among the members is missing
JoinIn_NoExisting(ps, r, u, tokens) ==
  LET room_parties == RoomParties(ps, r)
      t == JoinTarget(room_parties, tokens)
  IN  IF DOMAIN room_parties = {} THEN [ps |-> ps, reply |-> "join:none"]
      ELSE IF t.err # "" THEN [ps |-> ps, reply |-> t.err]
      ELSE JoinSelected(ps, r, u, t, 0,
             Len(room_parties[t.owner].members) >= room_parties[t.owner].max_members)

\* join_party under PARTY_LOCK
JoinIn(ps, r, u, tokens) ==
  LET room_parties == RoomParties(ps, r)
      t == JoinTarget(room_parties, tokens)
  IN  IF DOMAIN room_parties = {} THEN [ps |-> ps, reply |-> "join:none"]
      ELSE IF t.err # "" THEN [ps |-> ps, reply |-> t.err]
      ELSE JoinSelected(ps, r, u, t,
             ExistingIndex(room_parties[t.owner].members, u),
             Len(room_parties[t.owner].members) >= room_parties[t.owner].max_members)

\* the filter of leave_party losing the last of the remaining members too
WithoutId_AndLast(members, user_id) ==
  LET left == SelectSeq(members, LAMBDA m : m.id # user_id)
  IN  SubSeq(left, 1, Len(left) - 1)

\* [m for m in members if m["id"] != user_id]
WithoutId(members, user_id) ==
  SelectSeq(members, LAMBDA m : m.id # user_id)

\* mutant of LeaveOne: the owner leaves like any other member
LeaveOne_KeepParty(room_parties, owner_id, user_id) ==
  LET left == WithoutId(room_parties[owner_id].members, user_id)
  IN  IF left = <<>>
      THEN DictPop(room_parties, owner_id)
      ELSE [room_parties EXCEPT ![owner_id].members = left]

\* mutant of LeaveOne: the party goes whoever leaves it
LeaveOne_PopAlways(room_parties, owner_id, user_id) ==
  DictPop(room_parties, owner_id)

\* leave_party, the loop over the parties the user is in, for one such party
LeaveOne(room_parties, owner_id, user_id) ==
  LET party == room_parties[owner_id]
  IN  IF party.owner_id = user_id
      THEN DictPop(room_parties, owner_id)
      ELSE LET left == WithoutId(party.members, user_id)
           IN  IF left = <<>>
               THEN DictPop(room_parties, owner_id)
               ELSE [room_parties EXCEPT ![owner_id].members = left]

RECURSIVE LeaveAll(_, _, _)
LeaveAll(room_parties, joined, user_id) ==
  IF joined = {} THEN room_parties
  ELSE LET o == CHOOSE x \in joined : TRUE
       IN  LeaveAll(LeaveOne(room_parties, o, user_id), joined \ {o}, user_id)

\* leave_party under PARTY_LOCK
LeaveIn(ps, r, u) ==
  LET room_parties == RoomParties(ps, r)
      joined == {o \in DOMAIN room_parties :
                   \E i \in 1..Len(room_parties[o].members) :
                     room_parties[o].members[i].id = u}
  IN  IF DOMAIN room_parties = {}
      THEN [ps |-> ps, reply |-> "leave:none"]
      ELSE IF joined = {}
      THEN [ps |-> ps, reply |-> "leave:notjoined"]
      ELSE [ps |-> PopRoomIfEmpty(DictSet(ps, r, LeaveAll(room_parties, joined, u)), r),
            reply |-> "leave:ok"]

\* mutant of StatusIn: the listing empties the registry
StatusIn_Clear(ps, r) ==
  IF DOMAIN RoomParties(ps, r) = {}
  THEN [ps |-> ps, reply |-> "status:none"]
  ELSE [ps |-> EmptyDict, reply |-> "status:list"]

\* show_party_status under PARTY_LOCK: a reply only
StatusIn(ps, r) ==
  IF DOMAIN RoomParties(ps, r) = {}
  THEN [ps |-> ps, reply |-> "status:none"]
  ELSE [ps |-> ps, reply |-> "status:list"]

\* promote_party under PARTY_LOCK: a reply only
PromoteIn(ps, r, u) ==
  LET room_parties == RoomParties(ps, r)
  IN  IF DOMAIN room_parties = {}
      THEN [ps |-> ps, reply |-> "promote:none"]
      ELSE IF u \in DOMAIN room_parties
              \/ \E o \in DOMAIN room_parties :
                   \E i \in 1..Len(room_parties[o].members) :
                     room_parties[o].members[i].id = u
      THEN [ps |-> ps, reply |-> "promote:ok"]
      ELSE [ps |-> ps, reply |-> "promote:noparty"]

\* ------------------------------------------------------------------ inputs
CreateParams == {<<>>}

AddParams == {<<>>, <<"x">>}

KickParams == {Word("x")} \cup {Num(i) : i \in 0..9}

JoinParams ==
  {<<>>, <<Word("main")>>} \cup {<<Num(i)>> : i \in 1..(NumUsers + 1)}

\* SpecFill also joins with a class and a main/sub flag
JoinParamsFill == JoinParams \cup {<<Num(1), Word("A"), Word("sub")>>}

\* the (room, owner) keys of the live parties
Slots(ps) ==
  {s \in Rooms \X Users : s[1] \in DOMAIN ps /\ s[2] \in DOMAIN ps[s[1]]}

RECURSIVE SumOver(_, _)
SumOver(f, S) ==
  IF S = {} THEN 0
  ELSE LET x == CHOOSE y \in S : TRUE IN f[x] + SumOver(f, S \ {x})

\* number of members other than the first (the creator) over all live parties
ExtraCount(ps) ==
  SumOver([s \in Slots(ps) |-> Len(ps[s[1]][s[2]].members) - 1], Slots(ps))

\* ----------------------------------------------------------------- actions
\* every command first runs _ensure_today_state, then its body under
\* PARTY_LOCK.  The reply of a command is an output, not state: it is the
\* reply field of the command's result.
Ensured == EnsureTodayState(PARTY_STATE, PARTY_STATE_DATE, today)

Handled(res) ==
  /\ PARTY_STATE' = res.ps
  /\ PARTY_STATE_DATE' = Ensured[2]
  /\ UNCHANGED <<hostVars, imageVars, schedVars, today, userVars, raceVars, gameVars>>

CreateResult(ps, r, u, param) ==
  LET parsed == ParsePartyCreateArgs(param)
  IN  CreateIn(ps, r, u, parsed[1], parsed[2], 4, FALSE)

\* create_raid_party with the capacity of a normal party
CreateRaidResult_Cap4(ps, r, u, param) ==
  LET parsed == ParsePartyCreateArgs(param)
      title == IF parsed[1] = <<"Party">> THEN <<"RaidParty">> ELSE parsed[1]
  IN  CreateIn(ps, r, u, title, parsed[2], 4, TRUE)

CreateRaidResult(ps, r, u, param) ==
  LET parsed == ParsePartyCreateArgs(param)
      title == IF parsed[1] = <<"Party">> THEN <<"RaidParty">> ELSE parsed[1]
  IN  CreateIn(ps, r, u, title, parsed[2], 8, TRUE)

create_party(r, u, param) == Handled(CreateResult(Ensured[1], r, u, param))

create_raid_party(r, u, param) == Handled(CreateRaidResult(Ensured[1], r, u, param))

delete_party(r, u) == Handled(DeleteIn(Ensured[1], r, u))

add_member_by_master(r, u, param) == Handled(AddMemberIn(Ensured[1], r, u, param))

kick_member(r, u, param) == Handled(KickIn(Ensured[1], r, u, param))

join_party(r, u, tokens) == Handled(JoinIn(Ensured[1], r, u, tokens))

leave_party(r, u) == Handled(LeaveIn(Ensured[1], r, u))

show_party_status(r, u) == Handled(StatusIn(Ensured[1], r))

promote_party(r, u) == Handled(PromoteIn(Ensured[1], r, u))

\* show_help: a reply only
HelpIn(ps) == [ps |-> ps, reply |-> "help"]

show_help(r, u) == Handled(HelpIn(Ensured[1]))

\* the host's calendar date moves on
NextDay ==
  /\ today < MaxDay
  /\ today' = today + 1
  /\ UNCHANGED <<hostVars, imageVars, schedVars, partyVars, raceVars, gameVars, userVars>>

Init ==
  /\ PARTY_STATE = EmptyDict
  /\ PARTY_STATE_DATE = NoDate
  /\ today = 0
  /\ users = EmptyDict
  /\ items = EmptyDict
  /\ item_seq = 0
  /\ inventory = EmptyDict
  /\ lotto = <<>>
  /\ announced = EmptyDict
  /\ inflight = EmptyDict
  /\ party_threads = EmptyDict
  /\ PARTY_LOCK = 0
  /\ GAME_369_STATE = EmptyDict
  /\ game_dicts = EmptyDict
  /\ turn_threads = EmptyDict
  /\ escaped = {}
  /\ tick = 0
  /\ scheduler = [pc |-> "off", target |-> 0, started |-> 0]
  /\ draw_log = <<>>
  /\ font_call = NoCall
  /\ personal_images = EmptyDict
  /\ last_saved = EmptyDict

\* SpecParty: several rooms and owners, with at most MaxLive live parties and
\* at most MaxExtra members beside the creators at a time
InBounds ==
  /\ Cardinality(Slots(PARTY_STATE')) <= MaxLive
  /\ ExtraCount(PARTY_STATE') <= MaxExtra

PartyNext ==
  \/ \E r \in Rooms, u \in Users, param \in CreateParams :
       create_party(r, u, param) /\ InBounds
  \/ \E r \in Rooms, u \in Users, param \in CreateParams :
       create_raid_party(r, u, param) /\ InBounds
  \/ \E r \in Rooms, u \in Users : delete_party(r, u) /\ InBounds
  \/ \E r \in Rooms, u \in Users, param \in AddParams :
       add_member_by_master(r, u, param) /\ InBounds
  \/ \E r \in Rooms, u \in Users, param \in KickParams :
       kick_member(r, u, param) /\ InBounds
  \/ \E r \in Rooms, u \in Users, tokens \in JoinParams :
       join_party(r, u, tokens) /\ InBounds
  \/ \E r \in Rooms, u \in Users : leave_party(r, u) /\ InBounds
  \/ \E r \in Rooms, u \in Users : show_party_status(r, u) /\ InBounds
  \/ \E r \in Rooms, u \in Users : promote_party(r, u) /\ InBounds
  \/ \E r \in Rooms, u \in Users : show_help(r, u) /\ InBounds
  \/ NextDay

SpecParty == Init /\ [][PartyNext]_vars

\* SpecFill: room 1 with one live party at a time, which may fill up to its
\* capacity (4 or 8); joins also carry a class and a main/sub flag
OneParty == Cardinality(Slots(PARTY_STATE')) <= 1

FillNext ==
  \/ \E r \in {1}, u \in Users, param \in CreateParams :
       create_party(r, u, param) /\ OneParty
  \/ \E r \in {1}, u \in Users, param \in CreateParams :
       create_raid_party(r, u, param) /\ OneParty
  \/ \E r \in {1}, u \in Users : delete_party(r, u)
  \/ \E r \in {1}, u \in Users, param \in AddParams :
       add_member_by_master(r, u, param)
  \/ \E r \in {1}, u \in Users, param \in KickParams :
       kick_member(r, u, param)
  \/ \E r \in {1}, u \in Users, tokens \in JoinParamsFill :
       join_party(r, u, tokens)
  \/ \E r \in {1}, u \in Users : leave_party(r, u)
  \/ NextDay

SpecFill == Init /\ [][FillNext]_vars

\* ======================================================== party claims
\* the registry was last used on the current date: _ensure_today_state keeps it
SameDay == PARTY_STATE_DATE = today

Owns(ps, r, u) == u \in DOMAIN RoomParties(ps, r)

Parties(ps) == {ps[s[1]][s[2]] : s \in Slots(ps)}

MemberIds(party) == {party.members[i].id : i \in 1..Len(party.members)}

IsCreate(r, u) ==
  \E param \in CreateParams : create_party(r, u, param) \/ create_raid_party(r, u, param)

\* every party is stored under the id of its owner, so a room holds at most
\* one party per owner
OnePartyPerOwner ==
  \A s \in Slots(PARTY_STATE) : PARTY_STATE[s[1]][s[2]].owner_id = s[2]

\* C1 as stated: whenever U owns a party in R, a create command of U in R
\* leaves the registry unchanged
C1_Original ==
  [][\A r \in Rooms, u \in Users :
       (Owns(PARTY_STATE, r, u) /\ IsCreate(r, u)) => PARTY_STATE' = PARTY_STATE]_vars

\* C1 amended: while U owns a party in R and the date has not changed since the
\* registry was last used, a create command of U in R (create_party or
\* create_raid_party) is rejected and leaves the registry unchanged; and in
\* every reachable state a room holds at most one party per owner
C1_Amended ==
  /\ [][\A r \in Rooms, u \in Users, param \in CreateParams :
          (Owns(PARTY_STATE, r, u) /\ SameDay /\ IsCreate(r, u))
            => /\ PARTY_STATE' = PARTY_STATE
               /\ CreateResult(PARTY_STATE, r, u, param).reply = "create:already"
               /\ CreateRaidResult(PARTY_STATE, r, u, param).reply = "create:already"]_vars
  /\ []OnePartyPerOwner

\* C1 witness: the owner of a party that others have joined sends a create
\* command on the same day; it is rejected and the state is the one it leaves
C1_Witness ==
  \E r \in Rooms, u \in Users :
    /\ Owns(PARTY_STATE, r, u) /\ SameDay
    /\ Len(PARTY_STATE[r][u].members) >= 2
    /\ CreateResult(PARTY_STATE, r, u, <<>>).reply = "create:already"
    /\ CreateResult(PARTY_STATE, r, u, <<>>).ps = PARTY_STATE

\* ---------------------------------------------------------------- C2
CapacityRespected ==
  \A party \in Parties(PARTY_STATE) : Len(party.members) <= party.max_members

IsFull(party) == Len(party.members) = party.max_members

\* the tokens of a join select the party owned by o in room r
JoinAims(r, tokens, o) ==
  /\ DOMAIN RoomParties(PARTY_STATE, r) # {}
  /\ JoinTarget(PARTY_STATE[r], tokens).err = ""
  /\ JoinTarget(PARTY_STATE[r], tokens).owner = o

\* the member list of the party of o in room r is the same after the step
MembersKept(r, o) ==
  /\ Owns(PARTY_STATE', r, o)
  /\ PARTY_STATE'[r][o].members = PARTY_STATE[r][o].members

\* C2 as stated: no party ever has more members than max_members, and a
\* join_party or add_member_by_master aimed at a party whose member count
\* equals its capacity leaves the member list unchanged
C2_Original ==
  /\ []CapacityRespected
  /\ [][\A r \in Rooms, u \in Users, o \in Users, tokens \in JoinParamsFill :
          (JoinAims(r, tokens, o) /\ IsFull(PARTY_STATE[r][o])
             /\ join_party(r, u, tokens)) => MembersKept(r, o)]_vars
  /\ [][\A r \in Rooms, u \in Users, param \in AddParams :
          (Owns(PARTY_STATE, r, u) /\ IsFull(PARTY_STATE[r][u])
             /\ add_member_by_master(r, u, param)) => MembersKept(r, u)]_vars

\* C2 amended: no party ever has more members than max_members; on the date
\* the registry was last used, a join_party by a user who is not yet a member
\* of the selected party, or an add_member_by_master, aimed at a party whose
\* member count equals its capacity is rejected as full and leaves the
\* registry unchanged
C2_Amended ==
  /\ []CapacityRespected
  /\ [][\A r \in Rooms, u \in Users, o \in Users, tokens \in JoinParamsFill :
          (JoinAims(r, tokens, o) /\ IsFull(PARTY_STATE[r][o]) /\ SameDay
             /\ u \notin MemberIds(PARTY_STATE[r][o])
             /\ join_party(r, u, tokens))
            => /\ PARTY_STATE' = PARTY_STATE
               /\ JoinIn(PARTY_STATE, r, u, tokens).reply = "join:full"]_vars
  /\ [][\A r \in Rooms, u \in Users, param \in AddParams :
          (Owns(PARTY_STATE, r, u) /\ IsFull(PARTY_STATE[r][u]) /\ SameDay
             /\ add_member_by_master(r, u, param))
            => /\ PARTY_STATE' = PARTY_STATE
               /\ param # <<>>
                    => AddMemberIn(PARTY_STATE, r, u, param).reply = "add:full"]_vars

\* C2 witness: a raid party holds 8 members, a user who is not one of them
\* asks to join it on the same day and is refused
C2_Witness ==
  \E r \in Rooms, o \in Users, u \in Users :
    /\ Owns(PARTY_STATE, r, o) /\ SameDay
    /\ PARTY_STATE[r][o].max_members = 8
    /\ Len(PARTY_STATE[r][o].members) = 8
    /\ u \notin MemberIds(PARTY_STATE[r][o])
    /\ JoinIn(PARTY_STATE, r, u, <<>>).reply = "join:full"
    /\ AddMemberIn(PARTY_STATE, r, o, <<"x">>).reply = "add:full"

\* ---------------------------------------------------------------- C6
\* the owner u of a party of room r runs delete_party or leave_party
OwnerRemoval(r, u) ==
  /\ Owns(PARTY_STATE, r, u)
  /\ delete_party(r, u) \/ leave_party(r, u)

\* a party record that carries a pending timer
TimerPending(party) == "timer" \in DOMAIN party

PartyKeys ==
  {"party_id", "title", "max_members", "members", "owner_id", "owner_name", "is_raid"}

Positions(party, id) == {i \in 1..Len(party.members) : party.members[i].id = id}

\* C8 as stated: within each party's member list every member id appears at
\* most once
C8_Original ==
  \A party \in Parties(PARTY_STATE) :
    \A id \in MemberIds(party) : Cardinality(Positions(party, id)) = 1

\* C8 amended: within each party's member list every member id other than 0,
\* the id add_member_by_master gives to every member it adds, appears at most
\* once
C8_Amended ==
  \A party \in Parties(PARTY_STATE) :
    \A id \in MemberIds(party) \ {0} : Cardinality(Positions(party, id)) = 1

\* C8 witness: a party with two added members (id 0) and a joined user
C8_Witness ==
  \E party \in Parties(PARTY_STATE) :
    /\ Cardinality(Positions(party, 0)) >= 2
    /\ \E i \in 2..Len(party.members) : party.members[i].id # 0

\* ---------------------------------------------------------------- C9
\* C9: every party in the registry has a non-empty member list whose first
\* entry is its creator (members[0].id == owner_id)
C9_OwnerFirst ==
  \A party \in Parties(PARTY_STATE) :
    /\ Len(party.members) >= 1
    /\ party.members[1].id = party.owner_id

\* C9 witness: a party with members after its owner, whose owner asks to kick
\* member 1 and is refused
C9_Witness ==
  \E r \in Rooms, u \in Users :
    /\ Owns(PARTY_STATE, r, u)
    /\ Len(PARTY_STATE[r][u].members) >= 3
    /\ KickIn(PARTY_STATE, r, u, Num(1)).reply = "kick:owner"
    /\ KickIn(PARTY_STATE, r, u, Num(2)).reply = "kick:ok"

\* --------------------------------------------------------------- C10
PartyIds(ps, r, owners) == {ps[r][o].party_id : o \in owners}

DistinctPositiveIds ==
  \A r \in DOMAIN PARTY_STATE :
    \A o1 \in DOMAIN PARTY_STATE[r], o2 \in DOMAIN PARTY_STATE[r] :
      /\ PARTY_STATE[r][o1].party_id >= 1
      /\ o1 # o2 => PARTY_STATE[r][o1].party_id # PARTY_STATE[r][o2].party_id

\* a create command of u in room r stores a new party
Creates(r, u) ==
  \E param \in CreateParams :
    \/ create_party(r, u, param)
         /\ CreateResult(Ensured[1], r, u, param).reply = "create:ok"
    \/ create_raid_party(r, u, param)
         /\ CreateRaidResult(Ensured[1], r, u, param).reply = "create:ok"

\* C10: within a room the party_id values of the live parties are pairwise
\* distinct positive integers, and a newly created party receives the smallest
\* positive integer not used by another live party of its room
C10_LowestFreeId ==
  /\ []DistinctPositiveIds
  /\ [][\A r \in Rooms, u \in Users :
          Creates(r, u)
            => LET used == PartyIds(PARTY_STATE', r, DOMAIN PARTY_STATE'[r] \ {u})
                   pid == PARTY_STATE'[r][u].party_id
               IN  /\ pid >= 1
                   /\ pid \notin used
                   /\ \A k \in 1..(pid - 1) : k \in used]_vars

\* C10 witness: party 1 of a room was deleted while party 2 lives on, and the
\* next party of the room gets the number 1 again
C10_Witness ==
  \E r \in DOMAIN PARTY_STATE :
    /\ PartyIds(PARTY_STATE, r, DOMAIN PARTY_STATE[r]) = {2}
    /\ NextPartyId(PARTY_STATE, r) = 1

\* =====================================================================
\* user_system.py: attendance, points, lottery and shop on iris.db
\* =====================================================================

\* bounds of the user-system specifications
MaxChat == 3
MaxItems == 2
MaxTickets == 2

\* program constants
CheckinPoints == 10
FirstPrize == 300
SecondPrize == 150
RandMax == 999

\* ADMIN_IDS of the environment
ADMIN_LIST == {1}

\* a row of table users as INSERTed for a new sender; the columns job and
\* join_date are only displayed by the info command and are left out
NewUserRow(uid) ==
  [name |-> GetUserName(uid),
   total_checkin |-> 0, consecutive_checkin |-> 0, last_checkin_date |-> NoDate,
   total_chat |-> 0, today_chat |-> 0, last_chat_date |-> NoDate,
   points |-> 0, spent_points |-> 0]

\* _get_or_create_user under DB_LOCK: the row is created when missing, the
\* returned user is the row as read, and then the chat counters are written.
\* The sender's display name is GetUserName(uid) every time, so the rename
\* branch does not fire.
GetOrCreateUser(us, uid, now_date) ==
  LET us1 == IF uid \in DOMAIN us THEN us ELSE DictSet(us, uid, NewUserRow(uid))
      user == us1[uid]
      new_cnt == IF user.last_chat_date # now_date THEN 1 ELSE user.today_chat + 1
  IN  [users |-> [us1 EXCEPT ![uid].total_chat = @ + 1,
                             ![uid].today_chat = new_cnt,
                             ![uid].last_chat_date = now_date],
       user |-> user]

\* the check-in branch without the test of last_checkin_date
CheckinIn_NoDayTest(us, user, uid, now_date) ==
  [users |-> [us EXCEPT ![uid].total_checkin = user.total_checkin + 1,
                        ![uid].consecutive_checkin = 1,
                        ![uid].last_checkin_date = now_date,
                        ![uid].points = @ + CheckinPoints],
   reply |-> "checkin:ok"]

\* the check-in branch counting every check-in as one more day in a row
CheckinIn_AlwaysStreak(us, user, uid, now_date) ==
  IF user.last_checkin_date = now_date
    THEN [users |-> us, reply |-> "checkin:already"]
    ELSE [users |-> [us EXCEPT ![uid].total_checkin = user.total_checkin + 1,
                               ![uid].consecutive_checkin = user.consecutive_checkin + 1,
                               ![uid].last_checkin_date = now_date,
                               ![uid].points = @ + CheckinPoints],
          reply |-> "checkin:ok"]

\* the check-in branch of handle_user_commands: `user` is the row returned by
\* _get_or_create_user, `us` the table at the time of the UPDATE
CheckinIn(us, user, uid, now_date) ==
  IF user.last_checkin_date = now_date
    THEN [users |-> us, reply |-> "checkin:already"]
    ELSE LET new_consecutive ==
               IF user.last_checkin_date = now_date - 1
                 THEN user.consecutive_checkin + 1
                 ELSE 1
             new_total == user.total_checkin + 1
         IN  [users |-> [us EXCEPT ![uid].total_checkin = new_total,
                                   ![uid].consecutive_checkin = new_consecutive,
                                   ![uid].last_checkin_date = now_date,
                                   ![uid].points = @ + CheckinPoints],
              reply |-> "checkin:ok"]

\* text of a number: strings are sequences of characters
DigitChars == <<"0", "1", "2", "3", "4", "5", "6", "7", "8", "9">>

RECURSIVE Decimal(_)
Decimal(n) ==
  IF n < 10
    THEN <<DigitChars[n + 1]>>
    ELSE Decimal(n \div 10) \o <<DigitChars[(n % 10) + 1]>>

RECURSIVE PadLeft(_, _)
PadLeft(str, width) ==
  IF Len(str) >= width THEN str ELSE PadLeft(<<"0">> \o str, width)

\* f"{n}" : no padding
Format03d_NoPad(n) == Decimal(n)

\* f"{n:03d}"
Format03d(n) == PadLeft(Decimal(n), 3)

\* the values of random.randint(0, 999) that are tried
LottoSample == {0, 7, 77, RandMax}

\* the undrawn tickets (indices into table lotto) of a room, of a user
Undrawn(lot) == {i \in 1..Len(lot) : ~lot[i].is_drawn}

UndrawnOfRoom(lot, rid) == {i \in Undrawn(lot) : lot[i].room_id = rid}

UndrawnOfUser(lot, uid) == {i \in Undrawn(lot) : lot[i].user_id = uid}

\* the lottery command without the look for an undrawn ticket
LottoAutoIn_NoTest(lot, uid, room_id, now_date, n) ==
  [lotto |-> Append(lot, [user_id |-> uid, lotto_date |-> now_date,
                          numbers |-> Format03d(n), room_id |-> room_id,
                          is_drawn |-> FALSE]),
   reply |-> "lotto:new"]

\* the lottery command: one ticket per user while one is undrawn
LottoAutoIn(lot, uid, room_id, now_date, n) ==
  IF UndrawnOfUser(lot, uid) # {}
    THEN [lotto |-> lot, reply |-> "lotto:have"]
    ELSE [lotto |-> Append(lot, [user_id |-> uid, lotto_date |-> now_date,
                                 numbers |-> Format03d(n), room_id |-> room_id,
                                 is_drawn |-> FALSE]),
          reply |-> "lotto:new"]

\* the purchase without the test of the buyer's points
PurchaseIn_NoPointTest(us, its, inv, uid, target_item) ==
  IF target_item = "" \/ target_item \notin DOMAIN its
    THEN [users |-> us, inventory |-> inv, reply |-> "buy:none"]
    ELSE LET item == its[target_item]
             key == <<uid, item.item_id>>
         IN  [users |-> [us EXCEPT ![uid].points = @ - item.price,
                                   ![uid].spent_points = @ + item.price],
              inventory |-> IF key \in DOMAIN inv
                              THEN [inv EXCEPT ![key] = @ + 1]
                              ELSE DictSet(inv, key, 1),
              reply |-> "buy:ok"]

\* the purchase command refusing only a buyer whose points are below zero
PurchaseIn_OnCredit(us, its, inv, uid, target_item) ==
  IF target_item = ""
    THEN [users |-> us, inventory |-> inv, reply |-> "buy:usage"]
  ELSE IF target_item \notin DOMAIN its
    THEN [users |-> us, inventory |-> inv, reply |-> "buy:noitem"]
  ELSE LET item == its[target_item]
           current_points == us[uid].points
           key == <<uid, item.item_id>>
       IN  IF current_points < 0
             THEN [users |-> us, inventory |-> inv, reply |-> "buy:poor"]
             ELSE [users |-> [us EXCEPT ![uid].points = @ - item.price,
                                        ![uid].spent_points = @ + item.price],
                   inventory |-> IF key \in DOMAIN inv
                                   THEN [inv EXCEPT ![key] = @ + 1]
                                   ELSE DictSet(inv, key, 1),
                   reply |-> "buy:ok"]

\* the purchase command; inventory maps <<user_id, item_id>> to the quantity
PurchaseIn(us, its, inv, uid, target_item) ==
  IF target_item = ""
    THEN [users |-> us, inventory |-> inv, reply |-> "buy:usage"]
  ELSE IF target_item \notin DOMAIN its
    THEN [users |-> us, inventory |-> inv, reply |-> "buy:noitem"]
  ELSE LET item == its[target_item]
           current_points == us[uid].points
           key == <<uid, item.item_id>>
       IN  IF current_points < item.price
             THEN [users |-> us, inventory |-> inv, reply |-> "buy:poor"]
             ELSE [users |-> [us EXCEPT ![uid].points = @ - item.price,
                                        ![uid].spent_points = @ + item.price],
                   inventory |-> IF key \in DOMAIN inv
                                   THEN [inv EXCEPT ![key] = @ + 1]
                                   ELSE DictSet(inv, key, 1),
                   reply |-> "buy:ok"]

\* the try block of the purchase: the UPDATE of users, the UPDATE or INSERT of
\* inventory, the commit and the reply, with an exception raised at `fault`
\* ("users", "inventory": before the commit, "reply": after it, "none": not at
\* all).  The except branch rolls the connection back, which undoes what was
\* not committed.
PurchaseTry_NoRollback(us, its, inv, uid, target_item, fault) ==
  LET done == PurchaseIn(us, its, inv, uid, target_item)
  IN  IF done.reply # "buy:ok" \/ fault = "none" THEN done
      ELSE IF fault = "users"
        THEN [users |-> us, inventory |-> inv, reply |-> "buy:error"]
      ELSE IF fault = "inventory"
        THEN [users |-> done.users, inventory |-> inv, reply |-> "buy:error"]
      ELSE [users |-> done.users, inventory |-> done.inventory, reply |-> "buy:error"]

PurchaseTry(us, its, inv, uid, target_item, fault) ==
  LET done == PurchaseIn(us, its, inv, uid, target_item)
  IN  IF done.reply # "buy:ok" \/ fault = "none" THEN done
      ELSE IF fault \in {"users", "inventory"}
        THEN [users |-> us, inventory |-> inv, reply |-> "buy:error"]
      ELSE [users |-> done.users, inventory |-> done.inventory, reply |-> "buy:error"]

\* the admin command that adds a shop item; parts are the tokens of the
\* parameter (name, price, description)
ShopAddIn(its, seq, uid, parts) ==
  IF uid \notin ADMIN_LIST
    THEN [items |-> its, item_seq |-> seq, reply |-> "shopadd:notadmin"]
  ELSE IF Len(parts) < 3
    THEN [items |-> its, item_seq |-> seq, reply |-> "shopadd:usage"]
  ELSE IF ~parts[2].num
    THEN [items |-> its, item_seq |-> seq, reply |-> "shopadd:price"]
  ELSE IF parts[1].w \in DOMAIN its
    THEN [items |-> its, item_seq |-> seq, reply |-> "shopadd:exists"]
  ELSE [items |-> DictSet(its, parts[1].w,
                          [item_id |-> seq + 1, price |-> parts[2].n,
                           description |-> parts[3].w]),
        item_seq |-> seq + 1,
        reply |-> "shopadd:ok"]

\* the delete command without the test of the sender
ShopDeleteIn_NoAdminTest(its, uid, item_name) ==
  IF item_name = ""
    THEN [items |-> its, reply |-> "shopdel:usage"]
  ELSE IF item_name \notin DOMAIN its
    THEN [items |-> its, reply |-> "shopdel:noitem"]
  ELSE [items |-> DictPop(its, item_name), reply |-> "shopdel:ok"]

\* the admin command that deletes a shop item
ShopDeleteIn(its, uid, item_name) ==
  IF uid \notin ADMIN_LIST
    THEN [items |-> its, reply |-> "shopdel:notadmin"]
  ELSE IF item_name = ""
    THEN [items |-> its, reply |-> "shopdel:usage"]
  ELSE IF item_name \notin DOMAIN its
    THEN [items |-> its, reply |-> "shopdel:noitem"]
  ELSE [items |-> DictPop(its, item_name), reply |-> "shopdel:ok"]

\* scoring of a ticket against the winning number of its room
MatchCount(u_num, winning_number) ==
  Cardinality({i \in 1..3 : u_num[i] = winning_number[i]})

\* a scoring that pays the second prize for one matching position already
Prize_SecondAtOne(u_num, winning_number) ==
  IF MatchCount(u_num, winning_number) = 3 THEN FirstPrize
  ELSE IF MatchCount(u_num, winning_number) >= 1 THEN SecondPrize
  ELSE 0

Prize(u_num, winning_number) ==
  IF MatchCount(u_num, winning_number) = 3 THEN FirstPrize
  ELSE IF MatchCount(u_num, winning_number) = 2 THEN SecondPrize
  ELSE 0

\* the rooms a draw visits
DrawRooms(lot) == {lot[i].room_id : i \in Undrawn(lot)}

TakenNumbers(lot, rid) == {lot[i].numbers : i \in UndrawnOfRoom(lot, rid)}

\* step 1: the first ticket whose 1-in-100 roll hits gives the winning number
RolledNumbers(lot, rid) == TakenNumbers(lot, rid)

\* step 2: one of up to 1000 random numbers that no ticket of the room holds
FreshNumbers(lot, rid) ==
  {Format03d(n) : n \in LottoSample} \ TakenNumbers(lot, rid)

\* the number drawn after 1000 tries that all hit a taken number
FallbackNumbers(lot, rid) ==
  IF TakenNumbers(lot, rid) = {} THEN {} ELSE {Format03d(n) : n \in LottoSample}

\* the number of tries of step 2 that are followed (range(1000) in the source)
MaxTries == 2

TrySeqs == [1..MaxTries -> LottoSample]

\* the winning number of room rid: hit is the first ticket whose roll is 1, or
\* 0 when no roll is; tries are the random numbers of step 2 and last is the
\* one taken when every try hit a taken number
WinningNumber(lot, rid, hit, tries, last) ==
  LET fresh == {k \in 1..Len(tries) : Format03d(tries[k]) \notin TakenNumbers(lot, rid)}
  IN  IF hit # 0 THEN lot[hit].numbers
      ELSE IF fresh # {}
      THEN Format03d(tries[CHOOSE k \in fresh : \A j \in fresh : k <= j])
      ELSE Format03d(last)

\* the winning numbers of room rid over all rolls and random numbers
WinningNumbers(lot, rid) ==
  {WinningNumber(lot, rid, hit, tries, last) :
     hit \in UndrawnOfRoom(lot, rid) \cup {0}, tries \in TrySeqs, last \in LottoSample}

WinningChoices(lot, rid) ==
  RolledNumbers(lot, rid) \cup FreshNumbers(lot, rid) \cup FallbackNumbers(lot, rid)

\* the three sets of WinningChoices are the outcomes of WinningNumber
ChoicesAreWinningNumbers ==
  \A rid \in DrawRooms(lotto) : WinningChoices(lotto, rid) = WinningNumbers(lotto, rid)

\* the UPDATEs of points for the tickets S, win being the winning number of
\* each room
RECURSIVE CreditTickets(_, _, _, _)
CreditTickets(us, lot, win, S) ==
  IF S = {}
    THEN us
    ELSE LET i == CHOOSE x \in S : TRUE
             t == lot[i]
         IN  CreditTickets(
               [us EXCEPT ![t.user_id].points = @ + Prize(t.numbers, win[t.room_id])],
               lot, win, S \ {i})

\* mutant of DrawIn: the closing UPDATE of is_drawn is missing
DrawIn_KeepUndrawn(us, lot, win) ==
  [users |-> CreditTickets(us, lot, win, Undrawn(lot)),
   lotto |-> lot]

\* execute_probability_draw for the winning numbers win
DrawIn(us, lot, win) ==
  [users |-> CreditTickets(us, lot, win, Undrawn(lot)),
   lotto |-> [i \in 1..Len(lot) |-> [lot[i] EXCEPT !.is_drawn = TRUE]]]

\* ---------------------------------------------------------------------
\* inputs of the user commands
ItemNames == {"a", "b"}

ItemPrices == {5, 20}

ShopAddParams ==
  {<<Word("a")>>, <<Word("a"), Word("x"), Word("d")>>}
    \cup {<<Word(nm), Num(pr), Word("d")>> : nm \in ItemNames, pr \in ItemPrices}

BuyParams == {""} \cup ItemNames

\* ---------------------------------------------------------------------
\* handle_user_commands: every command starts with _get_or_create_user
Got(u) == GetOrCreateUser(users, u, today)

check_in(u) ==
  /\ inflight = EmptyDict
  /\ users' = CheckinIn(Got(u).users, Got(u).user, u, today).users
  /\ UNCHANGED <<hostVars, imageVars, schedVars, partyVars, raceVars, gameVars, today, items, item_seq, inventory, lotto, announced, inflight>>

\* the commands that only read the tables: info, lottery info, shop list
my_info(u) ==
  /\ users' = Got(u).users
  /\ UNCHANGED <<hostVars, imageVars, schedVars, partyVars, raceVars, gameVars, today, items, item_seq, inventory, lotto, announced, inflight>>

lotto_info(u) ==
  /\ users' = Got(u).users
  /\ UNCHANGED <<hostVars, imageVars, schedVars, partyVars, raceVars, gameVars, today, items, item_seq, inventory, lotto, announced, inflight>>

shop_list(u) ==
  /\ users' = Got(u).users
  /\ UNCHANGED <<hostVars, imageVars, schedVars, partyVars, raceVars, gameVars, today, items, item_seq, inventory, lotto, announced, inflight>>

lotto_auto(u, room_id, n) ==
  /\ users' = Got(u).users
  /\ lotto' = LottoAutoIn(lotto, u, room_id, today, n).lotto
  /\ UNCHANGED <<hostVars, imageVars, schedVars, partyVars, raceVars, gameVars, today, items, item_seq, inventory, announced, inflight>>

PurchaseResult(u, target_item) ==
  PurchaseIn(Got(u).users, items, inventory, u, target_item)

purchase(u, target_item) ==
  /\ users' = PurchaseResult(u, target_item).users
  /\ inventory' = PurchaseResult(u, target_item).inventory
  /\ UNCHANGED <<hostVars, imageVars, schedVars, partyVars, raceVars, gameVars, today, items, item_seq, lotto, announced, inflight>>

\* the purchase when the database or the reply raises an exception
Faults == {"users", "inventory", "reply"}

purchase_failing(u, target_item, fault) ==
  /\ users' = PurchaseTry(Got(u).users, items, inventory, u, target_item, fault).users
  /\ inventory' = PurchaseTry(Got(u).users, items, inventory, u, target_item, fault).inventory
  /\ UNCHANGED <<hostVars, imageVars, schedVars, partyVars, raceVars, gameVars, today, items, item_seq, lotto, announced, inflight>>

shop_add(u, parts) ==
  /\ users' = Got(u).users
  /\ items' = ShopAddIn(items, item_seq, u, parts).items
  /\ item_seq' = ShopAddIn(items, item_seq, u, parts).item_seq
  /\ UNCHANGED <<hostVars, imageVars, schedVars, partyVars, raceVars, gameVars, today, inventory, lotto, announced, inflight>>

shop_delete(u, item_name) ==
  /\ users' = Got(u).users
  /\ items' = ShopDeleteIn(items, u, item_name).items
  /\ UNCHANGED <<hostVars, imageVars, schedVars, partyVars, raceVars, gameVars, today, item_seq, inventory, lotto, announced, inflight>>

\* what execute_probability_draw does to the tables: nothing happens without
\* an undrawn ticket
DrawTables ==
  IF DrawRooms(lotto) = {}
    THEN UNCHANGED userVars
    ELSE \E win \in [DrawRooms(lotto) -> UNION {WinningChoices(lotto, rid) : rid \in DrawRooms(lotto)}] :
           /\ \A rid \in DrawRooms(lotto) : win[rid] \in WinningChoices(lotto, rid)
           /\ users' = DrawIn(users, lotto, win).users
           /\ lotto' = DrawIn(users, lotto, win).lotto
           /\ announced' = [rid \in (DOMAIN announced) \cup DrawRooms(lotto) |->
                              IF rid \in DrawRooms(lotto) THEN win[rid] ELSE announced[rid]]
           /\ UNCHANGED <<items, item_seq, inventory, inflight>>

\* the scheduler thread's draw
execute_probability_draw ==
  /\ DrawTables
  /\ UNCHANGED <<hostVars, imageVars, schedVars, partyVars, raceVars, gameVars, today>>

\* every user sends at most MaxChat commands, the admins add at most MaxItems
\* items, at most MaxTickets lottery tickets are issued
ChatBound ==
  /\ \A u \in DOMAIN users' : users'[u].total_chat <= MaxChat
  /\ item_seq' <= MaxItems
  /\ Len(lotto') <= MaxTickets

\* SpecShop: attendance and the point shop, the commands handled one after
\* the other
ShopNext ==
  \/ \E u \in Users : check_in(u) /\ ChatBound
  \/ \E u \in Users : my_info(u) /\ ChatBound
  \/ \E u \in Users : shop_list(u) /\ ChatBound
  \/ \E u \in Users, target_item \in BuyParams : purchase(u, target_item) /\ ChatBound
  \/ \E u \in Users, target_item \in BuyParams, fault \in Faults :
       purchase_failing(u, target_item, fault) /\ ChatBound
  \/ \E u \in Users, parts \in ShopAddParams : shop_add(u, parts) /\ ChatBound
  \/ \E u \in Users, item_name \in BuyParams : shop_delete(u, item_name) /\ ChatBound
  \/ NextDay

SpecShop == Init /\ [][ShopNext]_vars

\* SpecLotto: the lottery commands handled one after the other, and the
\* scheduler's draw, within one calendar date: the lottery code stores the
\* date in lotto_date and never branches on it
LottoNext ==
  \/ \E u \in Users, rid \in Rooms, n \in LottoSample : lotto_auto(u, rid, n) /\ ChatBound
  \/ \E u \in Users : lotto_info(u) /\ ChatBound
  \/ execute_probability_draw

SpecLotto == Init /\ [][LottoNext]_vars

\* ---------------------------------------------------------------------
\* SpecCheckin: check-in commands handled by concurrent threads.  A handler
\* first runs _get_or_create_user under DB_LOCK, releases the lock, tests the
\* row it got, and takes DB_LOCK again for its UPDATE.
NumThreads == 2
MaxCount == 3
NumGameRooms == 1
MaxPlay == 40
TicksPerDay == 3
DrawTick == 1

Threads == 1..NumThreads

checkin_read(t, u) ==
  /\ t \notin DOMAIN inflight
  /\ users' = Got(u).users
  /\ inflight' = DictSet(inflight, t, [uid |-> u, user |-> Got(u).user])
  /\ UNCHANGED <<hostVars, imageVars, schedVars, partyVars, raceVars, gameVars, today, items, item_seq, inventory, lotto, announced>>

checkin_update(t) ==
  /\ t \in DOMAIN inflight
  /\ users' = CheckinIn(users, inflight[t].user, inflight[t].uid, today).users
  /\ inflight' = DictPop(inflight, t)
  /\ UNCHANGED <<hostVars, imageVars, schedVars, partyVars, raceVars, gameVars, today, items, item_seq, inventory, lotto, announced>>

CheckinNext ==
  \/ \E t \in Threads, u \in Users : checkin_read(t, u) /\ ChatBound
  \/ \E t \in Threads : checkin_update(t)
  \/ NextDay

SpecCheckin == Init /\ [][CheckinNext]_vars

\* ---------------------------------------------------------------- C3
\* the columns of a user before their first command
RowOf(us, u) == IF u \in DOMAIN us THEN us[u] ELSE NewUserRow(u)

CheckedInToday(u) == RowOf(users, u).last_checkin_date = today

\* C3: of two check-ins of a user handled one after the other on the same
\* day, the first adds 10 points and 1 to total_checkin, and the second leaves
\* points, total_checkin, consecutive_checkin and last_checkin_date unchanged
C3_SecondCheckinIdle ==
  [][\A u \in Users :
       check_in(u)
         => IF CheckedInToday(u)
              THEN /\ users'[u].points = users[u].points
                   /\ users'[u].total_checkin = users[u].total_checkin
                   /\ users'[u].consecutive_checkin = users[u].consecutive_checkin
                   /\ users'[u].last_checkin_date = users[u].last_checkin_date
              ELSE /\ users'[u].points = RowOf(users, u).points + 10
                   /\ users'[u].total_checkin = RowOf(users, u).total_checkin + 1
                   /\ users'[u].last_checkin_date = today]_vars

\* C3 witness: a user whose check-in of today was followed by a second one,
\* which was answered as already done
C3_Witness ==
  \E u \in DOMAIN users :
    /\ CheckedInToday(u)
    /\ users[u].points = 10 /\ users[u].total_checkin = 1
    /\ users[u].today_chat >= 2
    /\ CheckinIn(Got(u).users, Got(u).user, u, today).reply = "checkin:already"

\* ---------------------------------------------------------------- C4
\* C4: when check-ins of one user on one day are handled concurrently, the
\* UPDATE of a handler that runs when the user's row already carries today's
\* check-in adds no points and does not raise total_checkin: the day is
\* credited once
C4_CreditedOnce ==
  [][\A t \in Threads :
       (t \in DOMAIN inflight /\ checkin_update(t)
          /\ users[inflight[t].uid].last_checkin_date = today)
         => /\ users'[inflight[t].uid].points = users[inflight[t].uid].points
            /\ users'[inflight[t].uid].total_checkin
                 = users[inflight[t].uid].total_checkin]_vars

\* ---------------------------------------------------------------- C5
\* C5: a purchase of an item whose price exceeds the buyer's points is
\* rejected; the buyer's points and spent_points and the inventory stay as
\* they were
C5_PoorBuyerRejected ==
  [][\A u \in Users, target_item \in ItemNames :
       (/\ target_item \in DOMAIN items
        /\ items[target_item].price > RowOf(users, u).points
        /\ purchase(u, target_item))
         => /\ users'[u].points = RowOf(users, u).points
            /\ users'[u].spent_points = RowOf(users, u).spent_points
            /\ inventory' = inventory
            /\ PurchaseResult(u, target_item).reply = "buy:poor"]_vars

\* C5 witness: a buyer with 10 points asks for an item of price 20, having
\* bought a cheaper item before
C5_Witness ==
  \E u \in DOMAIN users, target_item \in DOMAIN items :
    /\ users[u].points > 0 /\ users[u].spent_points > 0
    /\ items[target_item].price > users[u].points
    /\ PurchaseResult(u, target_item).reply = "buy:poor"
    /\ PurchaseResult(u, target_item).inventory = inventory

\* ---------------------------------------------------------------- C7
IsThreeDigits(str) ==
  /\ Len(str) = 3
  /\ \A i \in 1..Len(str) : \E d \in 1..10 : str[i] = DigitChars[d]

\* C7: every stored lottery ticket number and every winning number sent by
\* the draw is a string of exactly three decimal digits
C7_ThreeDigits ==
  /\ \A i \in 1..Len(lotto) : IsThreeDigits(lotto[i].numbers)
  /\ \A rid \in DOMAIN announced : IsThreeDigits(announced[rid])

\* C7 witness: the ticket 007 was issued and drawn, and a room was sent the
\* winning number 000
C7_Witness ==
  /\ \E i \in 1..Len(lotto) : lotto[i].numbers = <<"0", "0", "7">> /\ lotto[i].is_drawn
  /\ \E rid \in DOMAIN announced : announced[rid] = <<"0", "0", "0">>

\* --------------------------------------------------------------- C11
CapacityByKind ==
  \A party \in Parties(PARTY_STATE) :
    party.max_members = IF party.is_raid THEN 8 ELSE 4

\* C11: a party created by create_party has capacity 4, one created by
\* create_raid_party has capacity 8, and a step that is not a create command
\* of the owner leaves the capacity of every party that stays as it is
C11_CapacityFixed ==
  /\ []CapacityByKind
  /\ [][\A r \in Rooms, u \in Users, param \in CreateParams :
          /\ (create_party(r, u, param)
                /\ CreateResult(Ensured[1], r, u, param).reply = "create:ok")
               => /\ PARTY_STATE'[r][u].max_members = 4
                  /\ ~PARTY_STATE'[r][u].is_raid
          /\ (create_raid_party(r, u, param)
                /\ CreateRaidResult(Ensured[1], r, u, param).reply = "create:ok")
               => /\ PARTY_STATE'[r][u].max_members = 8
                  /\ PARTY_STATE'[r][u].is_raid]_vars
  /\ [][\A r \in Rooms, o \in Users :
          (Owns(PARTY_STATE, r, o) /\ Owns(PARTY_STATE', r, o) /\ ~IsCreate(r, o))
            => PARTY_STATE'[r][o].max_members = PARTY_STATE[r][o].max_members]_vars

\* C11 witness: a raid party and a normal party, both joined by further
\* members after their creation
C11_Witness ==
  \E p1 \in Parties(PARTY_STATE), p2 \in Parties(PARTY_STATE) :
    /\ p1.is_raid /\ p1.max_members = 8 /\ Len(p1.members) >= 2
    /\ ~p2.is_raid /\ p2.max_members = 4 /\ Len(p2.members) >= 2

\* --------------------------------------------------------------- C12
\* the registry after the step holds the parties of before except those of
\* the slots in `gone`, each as it was
OnlyRemoved(gone) ==
  /\ Slots(PARTY_STATE') = Slots(PARTY_STATE) \ gone
  /\ \A s \in Slots(PARTY_STATE') : PARTY_STATE'[s[1]][s[2]] = PARTY_STATE[s[1]][s[2]]

\* C12 as stated: delete_party by u in room r removes the party u owns in r
\* and nothing else, and changes nothing when u owns no party in r
C12_Original ==
  [][\A r \in Rooms, u \in Users :
       delete_party(r, u)
         => IF Owns(PARTY_STATE, r, u)
              THEN OnlyRemoved({<<r, u>>})
              ELSE PARTY_STATE' = PARTY_STATE]_vars

\* C12 amended: on the date the registry was last used, delete_party by u in
\* room r removes the party u owns in r and no other party, and leaves the
\* registry unchanged when u owns no party in r; so no user other than the
\* owner removes a party through delete_party on that date
C12_Amended ==
  [][\A r \in Rooms, u \in Users :
       (SameDay /\ delete_party(r, u))
         => IF Owns(PARTY_STATE, r, u)
              THEN /\ OnlyRemoved({<<r, u>>})
                   /\ DeleteIn(PARTY_STATE, r, u).reply = "delete:ok"
              ELSE /\ PARTY_STATE' = PARTY_STATE
                   /\ DeleteIn(PARTY_STATE, r, u).reply \in {"delete:none", "delete:notowner"}]_vars

\* C12 witness: a party of u that v has joined, beside another party; v's
\* delete is refused, and u's delete removes the one party only
C12_Witness ==
  \E r \in Rooms, u \in Users, v \in Users :
    /\ SameDay /\ Owns(PARTY_STATE, r, u) /\ ~Owns(PARTY_STATE, r, v)
    /\ v \in MemberIds(PARTY_STATE[r][u])
    /\ Cardinality(Slots(PARTY_STATE)) >= 2
    /\ DeleteIn(PARTY_STATE, r, v).reply = "delete:notowner"
    /\ DeleteIn(PARTY_STATE, r, v).ps = PARTY_STATE
    /\ Slots(DeleteIn(PARTY_STATE, r, u).ps) = Slots(PARTY_STATE) \ {<<r, u>>}

\* --------------------------------------------------------------- C13
\* the slots of the parties that have u as a member
SlotsWith(ps, u) == {s \in Slots(ps) : u \in MemberIds(ps[s[1]][s[2]])}

\* after the step no party of room r has u as a member or as its owner
GoneFrom(r, u) ==
  /\ ~Owns(PARTY_STATE', r, u)
  /\ \A o \in DOMAIN RoomParties(PARTY_STATE', r) : u \notin MemberIds(PARTY_STATE'[r][o])

\* the parties of other rooms, and the parties of room r without u, are after
\* the step what they were before
OthersKept(r, u) ==
  \A s \in Slots(PARTY_STATE) :
    (s[1] # r \/ s \notin SlotsWith(PARTY_STATE, u))
      => /\ s \in Slots(PARTY_STATE')
         /\ PARTY_STATE'[s[1]][s[2]] = PARTY_STATE[s[1]][s[2]]

\* a party of room r that u was in without owning it keeps its other members
\* in their order, and its other fields
LeftInOrder(r, u) ==
  \A o \in DOMAIN RoomParties(PARTY_STATE, r) :
    (o # u /\ u \in MemberIds(PARTY_STATE[r][o]))
      => /\ Owns(PARTY_STATE', r, o)
         /\ PARTY_STATE'[r][o]
              = [PARTY_STATE[r][o] EXCEPT
                   !.members = SelectSeq(PARTY_STATE[r][o].members, LAMBDA m : m.id # u)]

\* C13 as stated: after leave_party by u in room r no party of r has u as a
\* member or owner, the parties u was not in are unchanged, and the parties u
\* left as a non-owner keep every other member in the same order
C13_Original ==
  [][\A r \in Rooms, u \in Users :
       leave_party(r, u) => GoneFrom(r, u) /\ OthersKept(r, u) /\ LeftInOrder(r, u)]_vars

\* C13 amended: after leave_party by u in room r no party of r has u as a
\* member or owner; when the date has not changed since the registry was last
\* used, the parties of r that u was not in and the parties of other rooms are
\* unchanged, and the parties u left as a non-owner keep every other member in
\* the same order
C13_Amended ==
  [][\A r \in Rooms, u \in Users :
       leave_party(r, u)
         => /\ GoneFrom(r, u)
            /\ SameDay => OthersKept(r, u) /\ LeftInOrder(r, u)]_vars

\* C13 witness: u is a member of a party of o beside an added member, and
\* owns a party in the same room; leaving removes u from both
C13_Witness ==
  \E r \in Rooms, u \in Users, o \in Users :
    /\ SameDay /\ o # u /\ Owns(PARTY_STATE, r, o) /\ Owns(PARTY_STATE, r, u)
    /\ u \in MemberIds(PARTY_STATE[r][o])
    /\ Len(PARTY_STATE[r][o].members) >= 3
    /\ PARTY_STATE[r][o].members[2].id = u
    /\ LeaveIn(PARTY_STATE, r, u).reply = "leave:ok"
    /\ Len(LeaveIn(PARTY_STATE, r, u).ps[r][o].members) = Len(PARTY_STATE[r][o].members) - 1

\* --------------------------------------------------------------- C14
\* u is a member of the party of o in room r, which the tokens select
Rejoins(r, u, o, tokens) ==
  /\ SameDay
  /\ JoinAims(r, tokens, o)
  /\ u \in MemberIds(PARTY_STATE[r][o])
  /\ join_party(r, u, tokens)

\* C14 as stated: a join_party by a member of the selected party is refused
\* and leaves the record of that party unchanged
C14_Original ==
  [][\A r \in Rooms, u \in Users, o \in Users, tokens \in JoinParamsFill :
       Rejoins(r, u, o, tokens)
         => /\ PARTY_STATE' = PARTY_STATE
            /\ JoinIn(PARTY_STATE, r, u, tokens).reply \notin {"join:cls", "join:position"}]_vars

\* C14 amended: a join_party by a member of the selected party is not
\* refused: it writes the class given in the command, if any, and the main/sub
\* flag given, if any, into that member's entry and replies with the member's
\* position; the other fields of the entry, the other members, their order and
\* the rest of the registry stay as they were, and a command that gives
\* neither changes nothing
C14_Amended ==
  [][\A r \in Rooms, u \in Users, o \in Users, tokens \in JoinParamsFill :
       Rejoins(r, u, o, tokens)
         => LET i == ExistingIndex(PARTY_STATE[r][o].members, u)
                old == PARTY_STATE[r][o].members[i]
                cls == JoinTarget(PARTY_STATE[r], tokens).parsed[1]
                is_main == JoinTarget(PARTY_STATE[r], tokens).parsed[2]
            IN  /\ PARTY_STATE' =
                     [PARTY_STATE EXCEPT ![r][o].members[i] =
                        [old EXCEPT !.cls = IF cls # None THEN cls ELSE old.cls,
                                    !.is_main = IF is_main # None THEN is_main ELSE old.is_main]]
                /\ JoinIn(PARTY_STATE, r, u, tokens).reply
                     \in {"join:cls", "join:position", "join:same", "join:show"}
                /\ (cls = None /\ is_main = None) => PARTY_STATE' = PARTY_STATE]_vars

\* C14 witness: a member who joined without a class can change class and
\* position by joining again, and a member who has a class can look at it
\* without losing it
C14_Witness ==
  \E r \in Rooms, o \in Users, u \in Users :
    /\ SameDay /\ o # u /\ Owns(PARTY_STATE, r, o)
    /\ u \in MemberIds(PARTY_STATE[r][o])
    /\ PARTY_STATE[r][o].members[1].cls = "A"
    /\ JoinIn(PARTY_STATE, r, o, <<>>).reply = "join:show"
    /\ JoinIn(PARTY_STATE, r, u, <<Num(1), Word("A"), Word("sub")>>).reply = "join:cls"
    /\ JoinIn(PARTY_STATE, r, u, <<Num(1), Word("A"), Word("sub")>>).ps # PARTY_STATE

\* --------------------------------------------------------------- C15
\* C15: the registry holds no room mapped to an empty party map and no party
\* with an empty member list
C15_NoEmptyEntry ==
  \A r \in DOMAIN PARTY_STATE :
    /\ DOMAIN PARTY_STATE[r] # {}
    /\ \A o \in DOMAIN PARTY_STATE[r] : PARTY_STATE[r][o].members # <<>>

\* C15 witness: a room whose only party has a joined member; the owner's
\* delete and the owner's leave both drop the room from the registry, and the
\* member's leave keeps the party
C15_Witness ==
  \E r \in DOMAIN PARTY_STATE, u \in Users, v \in Users :
    /\ SameDay /\ DOMAIN PARTY_STATE[r] = {u} /\ v # u
    /\ v \in MemberIds(PARTY_STATE[r][u])
    /\ r \notin DOMAIN DeleteIn(PARTY_STATE, r, u).ps
    /\ r \notin DOMAIN LeaveIn(PARTY_STATE, r, u).ps
    /\ Len(LeaveIn(PARTY_STATE, r, v).ps[r][u].members) >= 1

\* --------------------------------------------------------------- C16
QuantityOf(inv, key) == IF key \in DOMAIN inv THEN inv[key] ELSE 0

\* the three changes of a purchase of the item by u, all made
AllKept(u, item) ==
  /\ users'[u].points = RowOf(users, u).points - item.price
  /\ users'[u].spent_points = RowOf(users, u).spent_points + item.price
  /\ DOMAIN inventory' = (DOMAIN inventory) \cup {<<u, item.item_id>>}
  /\ \A key \in DOMAIN inventory' :
       inventory'[key] = QuantityOf(inventory, key) + IF key = <<u, item.item_id>> THEN 1 ELSE 0

\* none of the three changes made
NoneKept(u) ==
  /\ users'[u].points = RowOf(users, u).points
  /\ users'[u].spent_points = RowOf(users, u).spent_points
  /\ inventory' = inventory

\* the buyer u can pay the item named target_item
CanBuy(u, target_item) ==
  /\ target_item \in DOMAIN items
  /\ RowOf(users, u).points >= items[target_item].price

\* C16: a purchase that passes the checks makes all three changes (points
\* minus price, spent_points plus price, quantity plus 1 or a new row with
\* quantity 1) or, when a step fails, none of them
C16_AllOrNothing ==
  /\ [][\A u \in Users, target_item \in ItemNames :
          (CanBuy(u, target_item) /\ purchase(u, target_item))
            => AllKept(u, items[target_item])]_vars
  /\ [][\A u \in Users, target_item \in ItemNames, fault \in Faults :
          (CanBuy(u, target_item) /\ purchase_failing(u, target_item, fault))
            => IF fault = "reply"
                 THEN AllKept(u, items[target_item])
                 ELSE NoneKept(u)]_vars

\* C16 witness: a buyer who holds one piece of an item and can pay a second
\* one; the purchase raises the quantity to 2, a failing purchase keeps it
C16_Witness ==
  \E u \in DOMAIN users, target_item \in DOMAIN items :
    LET key == <<u, items[target_item].item_id>>
    IN  /\ key \in DOMAIN inventory /\ inventory[key] = 1
        /\ users[u].points >= items[target_item].price
        /\ users[u].spent_points = items[target_item].price
        /\ PurchaseResult(u, target_item).reply = "buy:ok"
        /\ PurchaseResult(u, target_item).inventory[key] = 2
        /\ PurchaseTry(Got(u).users, items, inventory, u, target_item, "inventory").inventory[key] = 1

\* --------------------------------------------------------------- C17
\* C17: the shop-add and shop-delete commands of a sender outside ADMIN_LIST
\* leave the items table as it is, and every change of the items table is a
\* shop-add or shop-delete command of a sender in ADMIN_LIST
C17_AdminOnly ==
  /\ [][\A u \in Users \ ADMIN_LIST :
          /\ \A parts \in ShopAddParams :
               shop_add(u, parts) => items' = items /\ item_seq' = item_seq
          /\ \A item_name \in BuyParams :
               shop_delete(u, item_name) => items' = items]_vars
  /\ [][items' # items
          => \E u \in ADMIN_LIST :
               \/ \E parts \in ShopAddParams : shop_add(u, parts)
               \/ \E item_name \in BuyParams : shop_delete(u, item_name)]_vars

\* C17 witness: a sender outside ADMIN_LIST who has used the bot asks to
\* delete an item of the shop and to add a new one, and both are ignored
C17_Witness ==
  \E u \in (DOMAIN users) \ ADMIN_LIST :
    /\ "a" \in DOMAIN items /\ "b" \notin DOMAIN items
    /\ ShopDeleteIn(items, u, "a").reply = "shopdel:notadmin"
    /\ ShopDeleteIn(items, u, "a").items = items
    /\ ShopAddIn(items, item_seq, u, <<Word("b"), Num(5), Word("d")>>).reply = "shopadd:notadmin"
    /\ ShopAddIn(items, item_seq, u, <<Word("b"), Num(5), Word("d")>>).items = items

\* --------------------------------------------------------------- C18
\* what a ticket is owed for the winning number of its room
Owed(u_num, winning_number) ==
  IF \A i \in 1..3 : u_num[i] = winning_number[i] THEN 300
  ELSE IF \E i \in 1..3 : /\ u_num[i] # winning_number[i]
                          /\ \A j \in (1..3) \ {i} : u_num[j] = winning_number[j]
    THEN 150
  ELSE 0

\* the draw runs with at least one undrawn ticket
Draws == DrawRooms(lotto) # {} /\ execute_probability_draw

\* C18: a draw sends one winning number to each room that has undrawn
\* tickets, and every user's points rise by 300 for each of the user's undrawn
\* tickets equal to its room's winning number in all three positions, by 150
\* for each equal in exactly two, and by nothing else
C18_DrawScoring ==
  [][Draws
       => /\ DrawRooms(lotto) \subseteq DOMAIN announced'
          /\ \A rid \in (DOMAIN announced') \ DrawRooms(lotto) :
               rid \in DOMAIN announced /\ announced'[rid] = announced[rid]
          /\ \A u \in DOMAIN users :
               users'[u].points = users[u].points
                 + SumOver([i \in UndrawnOfUser(lotto, u) |->
                              Owed(lotto[i].numbers, announced'[lotto[i].room_id])],
                           UndrawnOfUser(lotto, u))]_vars

\* C18 witness: after a draw with winning number 000 the holder of ticket 000
\* has 300 points, the holder of ticket 007 has 150, and a draw of another
\* room's ticket 999 paid nothing
C18_Witness ==
  \E u \in DOMAIN users, v \in DOMAIN users, rid \in DOMAIN announced :
    /\ announced[rid] = <<"0", "0", "0">>
    /\ users[u].points = 300 /\ users[v].points = 150
    /\ \E i \in 1..Len(lotto), j \in 1..Len(lotto) :
         /\ lotto[i].user_id = u /\ lotto[i].is_drawn /\ lotto[i].room_id = rid
         /\ lotto[i].numbers = <<"0", "0", "0">>
         /\ lotto[j].user_id = v /\ lotto[j].is_drawn /\ lotto[j].room_id = rid
         /\ lotto[j].numbers = <<"0", "0", "7">>


\* ------------------------------------------- party commands on several threads
\* Each party command runs on the thread of its message.  handle_party_command
\* calls _ensure_today_state and so does the command it dispatches to; neither
\* call is inside a "with PARTY_LOCK" block.  The command's body - its test,
\* its change of PARTY_STATE and its chat.reply - is inside one.

RaceCommands == {"create", "join"}

\* _ensure_today_state reads the clock and tests _PARTY_STATE_DATE; what it
\* found decides the writes that follow
ensure_test(t) ==
  /\ t \in DOMAIN party_threads
  /\ party_threads[t].pc = "ensure"
  /\ party_threads' =
       DictSet(party_threads, t,
         [party_threads[t] EXCEPT
            !.now = today,
            !.pc = IF PARTY_STATE_DATE = NoDate THEN "set_date"
                   ELSE IF PARTY_STATE_DATE # today THEN "clear"
                   ELSE IF party_threads[t].call = 1 THEN "ensure"
                   ELSE "acquire",
            !.call = IF PARTY_STATE_DATE = today /\ party_threads[t].call = 1
                       THEN 2 ELSE party_threads[t].call])
  /\ UNCHANGED <<hostVars, imageVars, schedVars, partyVars, PARTY_LOCK, today, userVars, gameVars>>

\* PARTY_STATE.clear()
ensure_clear(t) ==
  /\ t \in DOMAIN party_threads
  /\ party_threads[t].pc = "clear"
  /\ PARTY_STATE' = EmptyDict
  /\ party_threads' = DictSet(party_threads, t, [party_threads[t] EXCEPT !.pc = "set_date"])
  /\ UNCHANGED <<hostVars, imageVars, schedVars, PARTY_STATE_DATE, PARTY_LOCK, today, userVars, gameVars>>

\* _PARTY_STATE_DATE = today, and the return of _ensure_today_state
ensure_set_date(t) ==
  /\ t \in DOMAIN party_threads
  /\ party_threads[t].pc = "set_date"
  /\ PARTY_STATE_DATE' = party_threads[t].now
  /\ party_threads' =
       DictSet(party_threads, t,
         [party_threads[t] EXCEPT
            !.pc = IF party_threads[t].call = 1 THEN "ensure" ELSE "acquire",
            !.call = 2])
  /\ UNCHANGED <<hostVars, imageVars, schedVars, PARTY_STATE, PARTY_LOCK, today, userVars, gameVars>>

\* a message with a party command arrives and its handler starts
command_start(t, r, u, cmd) ==
  /\ t \notin DOMAIN party_threads
  /\ party_threads' =
       DictSet(party_threads, t,
         [pc |-> "ensure", call |-> 1, room |-> r, user |-> u, cmd |-> cmd,
          now |-> today, reported |-> None])
  /\ UNCHANGED <<hostVars, imageVars, schedVars, partyVars, PARTY_LOCK, today, userVars, gameVars>>

\* with PARTY_LOCK:
lock_acquire(t) ==
  /\ t \in DOMAIN party_threads
  /\ party_threads[t].pc = "acquire"
  /\ PARTY_LOCK = 0
  /\ PARTY_LOCK' = t
  /\ party_threads' = DictSet(party_threads, t, [party_threads[t] EXCEPT !.pc = "body"])
  /\ UNCHANGED <<hostVars, imageVars, schedVars, partyVars, today, userVars, gameVars>>

\* the body of create_party or join_party up to its chat.reply
BodyResult(ps, c) ==
  IF c.cmd = "create" THEN CreateResult(ps, c.room, c.user, <<>>)
  ELSE JoinIn(ps, c.room, c.user, <<>>)

command_body(t) ==
  /\ t \in DOMAIN party_threads
  /\ party_threads[t].pc = "body"
  /\ PARTY_LOCK = t
  /\ PARTY_STATE' = BodyResult(PARTY_STATE, party_threads[t]).ps
  /\ party_threads' =
       DictSet(party_threads, t,
         [party_threads[t] EXCEPT
            !.pc = "reply",
            !.reported = BodyResult(PARTY_STATE, party_threads[t]).reply])
  /\ UNCHANGED <<hostVars, imageVars, schedVars, PARTY_STATE_DATE, PARTY_LOCK, today, userVars, gameVars>>

\* chat.reply has been sent; the with block ends and the handler returns
command_finish(t) ==
  /\ t \in DOMAIN party_threads
  /\ party_threads[t].pc = "reply"
  /\ PARTY_LOCK = t
  /\ PARTY_LOCK' = 0
  /\ party_threads' = DictPop(party_threads, t)
  /\ UNCHANGED <<hostVars, imageVars, schedVars, partyVars, today, userVars, gameVars>>

RaceNext ==
  \/ \E t \in Threads, r \in Rooms, u \in Users, cmd \in RaceCommands :
       command_start(t, r, u, cmd)
  \/ \E t \in Threads : ensure_test(t)
  \/ \E t \in Threads : ensure_clear(t)
  \/ \E t \in Threads : ensure_set_date(t)
  \/ \E t \in Threads : lock_acquire(t)
  \/ \E t \in Threads : command_body(t)
  \/ \E t \in Threads : command_finish(t)
  \/ NextDay

SpecRace == Init /\ [][RaceNext]_vars

\* ------------------------------------------------------------------- C19
\* the command of thread t has reported a created party or a joined member
Reported(t) ==
  /\ t \in DOMAIN party_threads
  /\ party_threads[t].pc = "reply"
  /\ party_threads[t].reported \in {"create:ok", "join:ok"}

\* what the command of thread t reported is in the registry
Present(t) ==
  LET c == party_threads[t]
  IN  IF c.cmd = "create" THEN Owns(PARTY_STATE, c.room, c.user)
      ELSE \E p \in Parties(PARTY_STATE) : c.user \in MemberIds(p)

\* C19: the party a command reports as created, or the member it reports as
\* joined, is in PARTY_STATE when the command finishes, whatever the other
\* threads do meanwhile (the command starting and finishing on the same day)
C19_ReportedIsPresent ==
  [][\A t \in Threads :
       (Reported(t) /\ party_threads[t].now = today /\ command_finish(t)) => Present(t)]_vars

\* ---------------------------------------------------------------- 369 game
\* the clap letter (the jamo ssang-jieut) that stands for a digit 3, 6 or 9
Clap == "J"

\* one clap, however many digits 3, 6 or 9 the number has
FormatAnswer_OneClap(n) ==
  LET s == Decimal(n)
      clap_cnt == Len(SelectSeq(s, LAMBDA ch : ch \in {"3", "6", "9"}))
  IN  IF clap_cnt = 0 THEN s ELSE <<Clap>>

\* _format_answer: the number itself, or one clap for each 3, 6 or 9 in it
FormatAnswer(n) ==
  LET s == Decimal(n)
      clap_cnt == Len(SelectSeq(s, LAMBDA ch : ch \in {"3", "6", "9"}))
  IN  IF clap_cnt = 0 THEN s ELSE [i \in 1..clap_cnt |-> Clap]

IsDigit(ch) == \E i \in 1..Len(DigitChars) : DigitChars[i] = ch

\* _normalize_input: the digits of the text if it has any, else its claps if it
\* has any, else the text
NormalizeInput(text) ==
  LET digits == SelectSeq(text, IsDigit)
      claps == SelectSeq(text, LAMBDA ch : ch = Clap)
  IN  IF digits # <<>> THEN digits
      ELSE IF claps # <<>> THEN claps
      ELSE text

\* the state dicts that the registry or a handler still refers to
Collect(dicts, reg, thr) ==
  LET live == {reg[r] : r \in DOMAIN reg} \cup {thr[t].state : t \in DOMAIN thr}
  IN  [id \in DOMAIN dicts \cap live |-> dicts[id]]

NewDictId(dicts) ==
  CHOOSE id \in 1..(Cardinality(DOMAIN dicts) + 1) :
    id \notin DOMAIN dicts /\ \A j \in 1..(id - 1) : j \in DOMAIN dicts

\* _get_state: the room's state dict, made first when the room has none
GetState(reg, dicts, r) ==
  IF r \in DOMAIN reg
    THEN [reg |-> reg, dicts |-> dicts, state |-> reg[r]]
    ELSE LET id == NewDictId(dicts)
         IN  [reg |-> DictSet(reg, r, id),
              dicts |-> DictSet(dicts, id, [active |-> FALSE, current |-> 0]),
              state |-> id]

\* a reset that leaves the room's dict in the registry
ResetState_Keep(reg, r) == reg

\* _reset_state
ResetState(reg, r) == IF r \in DOMAIN reg THEN DictPop(reg, r) ELSE reg

\* a bot that says the next number and leaves the counter as it was
BotTakeTurn_Stay(dicts, id) == dicts

\* _bot_take_turn: the bot says the next number
BotTakeTurn(dicts, id) ==
  [dicts EXCEPT ![id].current = dicts[id].current + 1]

\* the rooms where 369 is played
GameRooms == 1..NumGameRooms

GameCommands == {"start", "end", "status", "help"}

\* handle_369_command: the registry and the dicts after the command
GameCommandIn(reg0, dicts0, r, cmd) ==
  LET g == GetState(reg0, dicts0, r)
      started == BotTakeTurn([g.dicts EXCEPT ![g.state] = [active |-> TRUE, current |-> 0]],
                             g.state)
  IN  [reg |-> IF cmd = "end" THEN ResetState(g.reg, r) ELSE g.reg,
       dicts |-> IF cmd = "start" THEN started ELSE g.dicts]

game_command(r, cmd) ==
  LET res == GameCommandIn(GAME_369_STATE, game_dicts, r, cmd)
  IN  /\ GAME_369_STATE' = res.reg
      /\ game_dicts' = Collect(res.dicts, res.reg, turn_threads)
      /\ UNCHANGED <<hostVars, imageVars, schedVars, partyVars, raceVars, today, userVars, turn_threads>>

\* the texts of the turn messages
TurnTexts ==
  {<<"2">>, <<"x", "2">>, <<Clap>>, <<"/", "x">>}

\* handle_369_turn up to its test of state["active"]
turn_start(t, r, text) ==
  LET g == GetState(GAME_369_STATE, game_dicts, r)
  IN  /\ t \notin DOMAIN turn_threads
      /\ IF text[1] \in {"!", "/"}
           THEN UNCHANGED gameVars
           ELSE /\ GAME_369_STATE' = g.reg
                /\ turn_threads' =
                     IF g.dicts[g.state].active
                       THEN DictSet(turn_threads, t,
                              [pc |-> "read", room |-> r, text |-> text,
                               state |-> g.state, expected_n |-> 0])
                       ELSE turn_threads
                /\ game_dicts' = g.dicts
      /\ UNCHANGED <<hostVars, imageVars, schedVars, partyVars, raceVars, today, userVars>>

\* expected_n = state["current"] + 1
turn_read(t) ==
  /\ t \in DOMAIN turn_threads
  /\ turn_threads[t].pc = "read"
  /\ game_dicts[turn_threads[t].state].current < MaxCount
  /\ turn_threads' =
       DictSet(turn_threads, t,
         [turn_threads[t] EXCEPT
            !.pc = "check",
            !.expected_n = game_dicts[turn_threads[t].state].current + 1])
  /\ UNCHANGED <<hostVars, imageVars, schedVars, partyVars, raceVars, today, userVars, GAME_369_STATE, game_dicts>>

Correct(c) == NormalizeInput(c.text) = FormatAnswer(c.expected_n)

\* the right answer: state["current"] = expected_n
turn_accept(t) ==
  /\ t \in DOMAIN turn_threads
  /\ turn_threads[t].pc = "check"
  /\ Correct(turn_threads[t])
  /\ game_dicts' =
       [game_dicts EXCEPT ![turn_threads[t].state].current = turn_threads[t].expected_n]
  /\ turn_threads' = DictSet(turn_threads, t, [turn_threads[t] EXCEPT !.pc = "bot"])
  /\ UNCHANGED <<hostVars, imageVars, schedVars, partyVars, raceVars, today, userVars, GAME_369_STATE>>

\* a wrong answer: the reply that names the loser, then _reset_state
turn_wrong(t) ==
  /\ t \in DOMAIN turn_threads
  /\ turn_threads[t].pc = "check"
  /\ ~Correct(turn_threads[t])
  /\ GAME_369_STATE' = ResetState(GAME_369_STATE, turn_threads[t].room)
  /\ turn_threads' = DictPop(turn_threads, t)
  /\ game_dicts' = Collect(game_dicts, GAME_369_STATE', turn_threads')
  /\ UNCHANGED <<hostVars, imageVars, schedVars, partyVars, raceVars, today, userVars>>

\* random.random() < join_rate: the bot takes the next turn at once
turn_bot(t) ==
  /\ t \in DOMAIN turn_threads
  /\ turn_threads[t].pc = "bot"
  /\ game_dicts[turn_threads[t].state].current < MaxCount
  /\ turn_threads' = DictPop(turn_threads, t)
  /\ game_dicts' =
       Collect(BotTakeTurn(game_dicts, turn_threads[t].state), GAME_369_STATE, turn_threads')
  /\ UNCHANGED <<hostVars, imageVars, schedVars, partyVars, raceVars, today, userVars, GAME_369_STATE>>

\* the bot stays out and the handler returns
turn_return(t) ==
  /\ t \in DOMAIN turn_threads
  /\ turn_threads[t].pc = "bot"
  /\ turn_threads' = DictPop(turn_threads, t)
  /\ game_dicts' = Collect(game_dicts, GAME_369_STATE, turn_threads')
  /\ UNCHANGED <<hostVars, imageVars, schedVars, partyVars, raceVars, today, userVars, GAME_369_STATE>>

GameNext ==
  \/ \E r \in GameRooms, cmd \in GameCommands : game_command(r, cmd)
  \/ \E t \in Threads, r \in GameRooms, text \in TurnTexts : turn_start(t, r, text)
  \/ \E t \in Threads : turn_read(t)
  \/ \E t \in Threads : turn_accept(t)
  \/ \E t \in Threads : turn_wrong(t)
  \/ \E t \in Threads : turn_bot(t)
  \/ \E t \in Threads : turn_return(t)

SpecGame == Init /\ [][GameNext]_vars

\* ------------------------------------------------------------------- C20
\* the handler of thread t holds the state dict of a game that was reset since
Stale(t) ==
  \/ turn_threads[t].room \notin DOMAIN GAME_369_STATE
  \/ GAME_369_STATE[turn_threads[t].room] # turn_threads[t].state

\* a turn that holds the dict of a game that was reset advances neither the
\* room's entry nor the game the room has now
StaleTurnAdvancesNothing ==
  [][\A t \in Threads :
       (turn_accept(t) /\ Stale(t)) =>
         /\ GAME_369_STATE' = GAME_369_STATE
         /\ \A r \in DOMAIN GAME_369_STATE :
              game_dicts'[GAME_369_STATE[r]] = game_dicts[GAME_369_STATE[r]]]_vars

\* a turn has been accepted on the dict of a game that was reset
StaleTurnAccepted ==
  \E t \in DOMAIN turn_threads : turn_threads[t].pc = "bot" /\ Stale(t)

\* C20: a turn message that is accepted moves its game's counter on by exactly
\* one, so that no count value is accepted from two player messages and none
\* is skipped or repeated, whatever the other turns of the room do meanwhile
C20_CountedOnce ==
  [][\A t \in Threads :
       turn_accept(t) =>
         game_dicts'[turn_threads[t].state].current =
           game_dicts[turn_threads[t].state].current + 1]_vars

\* ------------------------------------------------- handlers whose reply fails
\* chat.reply raises an exception (the connection to the messenger is lost).

\* /파티: create_party has no try block; the with statement releases PARTY_LOCK
\* and the exception leaves handle_party_command, after the party was stored
create_party_failing(r, u, param) ==
  /\ PARTY_STATE' = CreateResult(Ensured[1], r, u, param).ps
  /\ PARTY_STATE_DATE' = Ensured[2]
  /\ escaped' = escaped \cup {"handle_party_command"}
  /\ UNCHANGED <<imageVars, schedVars, today, userVars, raceVars, gameVars>>

\* a check-in: the except clause that closes handle_user_commands catches the
\* exception and prints it; the row was written and committed before the reply
check_in_failing(u) ==
  /\ inflight = EmptyDict
  /\ users' = CheckinIn(Got(u).users, Got(u).user, u, today).users
  /\ UNCHANGED <<hostVars, imageVars, schedVars, partyVars, raceVars, gameVars, today, items, item_seq, inventory,
                 lotto, announced, inflight>>

\* a 369 command: handle_369_command has no try block.  The first reply of
\* /369시작 comes after the game was switched on and before the bot's turn;
\* the reply of /369끝 comes after _reset_state
game_command_failing(r, cmd) ==
  LET g == GetState(GAME_369_STATE, game_dicts, r)
      reg == IF cmd = "end" THEN ResetState(g.reg, r) ELSE g.reg
      dicts == IF cmd = "start"
                 THEN [g.dicts EXCEPT ![g.state] = [active |-> TRUE, current |-> 0]]
                 ELSE g.dicts
  IN  /\ GAME_369_STATE' = reg
      /\ game_dicts' = Collect(dicts, reg, turn_threads)
      /\ escaped' = escaped \cup {"handle_369_command"}
      /\ UNCHANGED <<imageVars, schedVars, partyVars, raceVars, today, userVars, turn_threads>>

FaultNext ==
  \/ \E r \in Rooms, u \in Users, param \in CreateParams :
       create_party(r, u, param) /\ InBounds
  \/ \E r \in Rooms, u \in Users : leave_party(r, u)
  \/ \E r \in Rooms, u \in Users, param \in CreateParams :
       create_party_failing(r, u, param) /\ InBounds
  \/ \E u \in Users : check_in_failing(u) /\ ChatBound
  \/ \E r \in GameRooms, cmd \in GameCommands : game_command(r, cmd)
  \/ \E r \in GameRooms, cmd \in GameCommands : game_command_failing(r, cmd)

SpecFault == Init /\ [][FaultNext]_vars

\* ------------------------------------------------------------------- C21
\* C21: no exception raised while a command is handled propagates to the
\* host: every handler catches it
C21_NothingEscapes == escaped = {}

\* ------------------------------------------------- create with an argument
\* the texts that follow /파티 or /레이드파티: nothing, a clock time, a number
\* of minutes, and words that are neither
CreateTexts == {<<>>, <<"21:30">>, <<"90">>, <<"soon">>, <<"25:99", "A">>}

CreateNext ==
  \/ \E r \in Rooms, u \in Users, param \in CreateTexts :
       create_party(r, u, param) /\ InBounds
  \/ \E r \in Rooms, u \in Users, param \in CreateTexts :
       create_raid_party(r, u, param) /\ InBounds
  \/ \E r \in Rooms, u \in Users : delete_party(r, u)
  \/ \E r \in Rooms, u \in Users : show_party_status(r, u)
  \/ NextDay

SpecCreate == Init /\ [][CreateNext]_vars

\* ------------------------------------------------------------------- C22
\* the texts whose first word is a time of day HH:MM or a number of minutes
TimeSpecs == {<<"21:30">>, <<"90">>}

\* C22: a create command whose time specification is neither HH:MM nor a
\* number of minutes creates no party
C22_BadTimeCreatesNothing ==
  [][\A r \in Rooms, u \in Users, param \in CreateTexts \ (TimeSpecs \cup {<<>>}) :
       (~Owns(Ensured[1], r, u)
          /\ (create_party(r, u, param) \/ create_raid_party(r, u, param)))
         => ~Owns(PARTY_STATE', r, u)]_vars

\* ------------------------------------------------------------------- C23
\* party.py starts no thread and no timer: the only thing that happens without
\* a command from a user is that the clock moves on
SpecCreateLive == SpecCreate /\ WF_vars(NextDay)

\* C23: every party that was created is in the end removed from the registry,
\* by its timer if nobody deletes it earlier
C23_DestroyedByTimer ==
  \A r \in Rooms, u \in Users :
    Owns(PARTY_STATE, r, u) ~> ~Owns(PARTY_STATE, r, u)

\* ------------------------------------------------------ lottery scheduler
\* A day has TicksPerDay ticks, the first at midnight; 07:00 is tick DrawTick.
\* The thread of start_lotto_scheduler runs between two ticks: it wakes in the
\* tick of its target, and the draw and the five seconds of sleep that follow
\* it end before the next tick.

\* datetime.now(KST) in ticks since the midnight of day 0
KstNow == today * TicksPerDay + tick

\* the target computed with now > target
NextTarget_Strict(now) ==
  LET target == (now \div TicksPerDay) * TicksPerDay + DrawTick
  IN  IF now > target THEN target + TicksPerDay ELSE target

\* target = now.replace(hour=7, ...); if now >= target: target += one day
NextTarget(now) ==
  LET target == (now \div TicksPerDay) * TicksPerDay + DrawTick
  IN  IF now >= target THEN target + TicksPerDay ELSE target

\* the scheduler thread has something to do at the present time
Runnable ==
  \/ scheduler.pc \in {"compute", "draw", "pause"}
  \/ scheduler.pc = "sleep" /\ KstNow >= scheduler.target

\* time passes
Tick ==
  /\ ~Runnable
  /\ IF tick + 1 < TicksPerDay
       THEN tick' = tick + 1 /\ today' = today
       ELSE today < MaxDay /\ tick' = 0 /\ today' = today + 1
  /\ UNCHANGED <<hostVars, imageVars, scheduler, draw_log, partyVars, raceVars, gameVars, userVars>>

\* start_lotto_scheduler: the thread is started
start_lotto_scheduler ==
  /\ scheduler.pc = "off"
  /\ scheduler' = [pc |-> "compute", target |-> 0, started |-> KstNow]
  /\ UNCHANGED <<hostVars, imageVars, tick, draw_log, partyVars, raceVars, gameVars, today, userVars>>

\* the head of the loop: the target, and time.sleep(wait_sec) begins
scheduler_compute ==
  /\ scheduler.pc = "compute"
  /\ scheduler' = [scheduler EXCEPT !.pc = "sleep", !.target = NextTarget(KstNow)]
  /\ UNCHANGED <<hostVars, imageVars, tick, draw_log, partyVars, raceVars, gameVars, today, userVars>>

\* time.sleep(wait_sec) returns and execute_probability_draw runs
scheduler_draw ==
  /\ scheduler.pc = "sleep"
  /\ KstNow >= scheduler.target
  /\ DrawTables
  /\ draw_log' = Append(draw_log, KstNow)
  /\ scheduler' = [scheduler EXCEPT !.pc = "pause"]
  /\ UNCHANGED <<hostVars, imageVars, tick, partyVars, raceVars, gameVars, today>>

\* time.sleep(5) returns and the loop starts over
scheduler_resume ==
  /\ scheduler.pc = "pause"
  /\ scheduler' = [scheduler EXCEPT !.pc = "compute"]
  /\ UNCHANGED <<hostVars, imageVars, tick, draw_log, partyVars, raceVars, gameVars, today, userVars>>

SchedNext ==
  \/ Tick
  \/ start_lotto_scheduler
  \/ scheduler_compute
  \/ scheduler_draw
  \/ scheduler_resume
  \/ \E u \in Users, rid \in Rooms : lotto_auto(u, rid, RandMax) /\ ChatBound

SpecSched == Init /\ [][SchedNext]_vars

\* ------------------------------------------------------------------- C24
\* the time of the 07:00 boundary of day d
Boundary(d) == d * TicksPerDay + DrawTick

\* the draws that the scheduler ran at the time w
DrawsAt(w) == {i \in 1..Len(draw_log) : draw_log[i] = w}

\* the scheduler has passed the boundary of day d: the time is later, or it is
\* that time and the thread is no longer sleeping towards it
Passed(d) ==
  \/ KstNow > Boundary(d)
  \/ KstNow = Boundary(d) /\ scheduler.pc \in {"pause", "compute"}
  \/ KstNow = Boundary(d) /\ scheduler.pc = "sleep" /\ scheduler.target > Boundary(d)

lotto_read(t, u, room_id) ==
  /\ t \notin DOMAIN inflight
  /\ users' = Got(u).users
  /\ inflight' = DictSet(inflight, t, [uid |-> u, user |-> Got(u).user, room_id |-> room_id])
  /\ UNCHANGED <<hostVars, imageVars, schedVars, partyVars, raceVars, gameVars, today, items, item_seq,
                 inventory, lotto, announced>>

lotto_issue(t, n) ==
  /\ t \in DOMAIN inflight
  /\ lotto' = LottoAutoIn(lotto, inflight[t].uid, inflight[t].room_id, today, n).lotto
  /\ inflight' = DictPop(inflight, t)
  /\ UNCHANGED <<hostVars, imageVars, schedVars, partyVars, raceVars, gameVars, today, users, items,
                 item_seq, inventory, announced>>

TicketNext ==
  \/ \E t \in Threads, u \in Users, rid \in Rooms : lotto_read(t, u, rid) /\ ChatBound
  \/ \E t \in Threads : lotto_issue(t, RandMax) /\ ChatBound
  \/ execute_probability_draw

SpecTicket == Init /\ [][TicketNext]_vars

\* ------------------------------------------------------------------- C25
\* C25: every user has at most one undrawn lottery ticket, over all rooms, and
\* a lottery command of a user who holds an undrawn ticket inserts nothing,
\* also when several commands of the user are handled at the same time
C25_OneUndrawnTicket ==
  /\ [](\A u \in Users : Cardinality(UndrawnOfUser(lotto, u)) <= 1)
  /\ [][\A t \in Threads :
          (lotto_issue(t, RandMax) /\ UndrawnOfUser(lotto, inflight[t].uid) # {})
            => lotto' = lotto]_vars

\* C25 witness: two commands of one user are being handled, for different
\* rooms, and the user already holds an undrawn ticket
C25_Witness ==
  \E u \in Users :
    /\ \A t \in Threads : t \in DOMAIN inflight /\ inflight[t].uid = u
    /\ inflight[1].room_id # inflight[2].room_id
    /\ Cardinality(UndrawnOfUser(lotto, u)) = 1

\* ------------------------------------------- 369 game, one message at a time
\* the handler without its early returns for an empty text and for a command
TurnIn_NoSkip(reg0, dicts0, r, text, bot_joins) ==
  LET g == GetState(reg0, dicts0, r)
      state == g.dicts[g.state]
      expected_n == state.current + 1
      advanced == [g.dicts EXCEPT ![g.state].current = expected_n]
  IN  IF ~state.active
        THEN [reg |-> g.reg, dicts |-> g.dicts, reply |-> "turn:idle"]
      ELSE IF NormalizeInput(text) = FormatAnswer(expected_n)
        THEN [reg |-> g.reg,
              dicts |-> IF bot_joins THEN BotTakeTurn(advanced, g.state) ELSE advanced,
              reply |-> IF bot_joins THEN "turn:bot" ELSE "turn:ok"]
      ELSE [reg |-> ResetState(g.reg, r), dicts |-> g.dicts, reply |-> "turn:wrong"]

\* handle_369_turn as a whole: the registry and the dicts after a message with
\* this text; bot_joins is the outcome of random.random() < join_rate
TurnIn(reg0, dicts0, r, text, bot_joins) ==
  IF text = <<>> \/ text[1] \in {"!", "/"}
    THEN [reg |-> reg0, dicts |-> dicts0, reply |-> "turn:skip"]
    ELSE
      LET g == GetState(reg0, dicts0, r)
          state == g.dicts[g.state]
          expected_n == state.current + 1
          advanced == [g.dicts EXCEPT ![g.state].current = expected_n]
      IN  IF ~state.active
            THEN [reg |-> g.reg, dicts |-> g.dicts, reply |-> "turn:idle"]
          ELSE IF NormalizeInput(text) = FormatAnswer(expected_n)
            THEN [reg |-> g.reg,
                  dicts |-> IF bot_joins THEN BotTakeTurn(advanced, g.state) ELSE advanced,
                  reply |-> IF bot_joins THEN "turn:bot" ELSE "turn:ok"]
          ELSE [reg |-> ResetState(g.reg, r), dicts |-> g.dicts, reply |-> "turn:wrong"]

handle_369_turn(r, text, bot_joins) ==
  LET res == TurnIn(GAME_369_STATE, game_dicts, r, text, bot_joins)
  IN  /\ turn_threads = EmptyDict
      /\ GAME_369_STATE' = res.reg
      /\ game_dicts' = Collect(res.dicts, res.reg, turn_threads)
      /\ UNCHANGED <<hostVars, imageVars, schedVars, partyVars, raceVars, today, userVars, turn_threads>>

\* the texts of the messages: every number up to MaxPlay, one and two claps,
\* a number or a clap among other letters, a word, commands, and nothing
PlayTexts ==
  {Decimal(n) : n \in 1..MaxPlay}
    \cup {<<Clap>>, <<Clap, Clap>>, <<"x", Clap>>, <<"x", "2">>, <<"x">>,
          <<"/", "x">>, <<"!", "2">>, <<>>}

\* the counter of the room after the message stays within MaxPlay
PlayBound ==
  \A r \in DOMAIN GAME_369_STATE' : game_dicts'[GAME_369_STATE'[r]].current <= MaxPlay

PlayNext ==
  \/ \E r \in Rooms, cmd \in GameCommands : game_command(r, cmd)
  \/ \E r \in Rooms, text \in PlayTexts, bot_joins \in BOOLEAN :
       handle_369_turn(r, text, bot_joins) /\ PlayBound

SpecPlay == Init /\ [][PlayNext]_vars

\* ------------------------------------------------------------------- C26
\* the state of the room's game as _get_state would return it
GameOf(reg, dicts, r) ==
  IF r \in DOMAIN reg THEN dicts[reg[r]] ELSE [active |-> FALSE, current |-> 0]

\* C26: after /369시작 the room's game is active and its counter is 1,
\* whatever the game of the room was before; the turn expected next is 2
C26_StartAtOne ==
  [][\A r \in Rooms :
       game_command(r, "start")
         => /\ r \in DOMAIN GAME_369_STATE'
            /\ GameOf(GAME_369_STATE', game_dicts', r) = [active |-> TRUE, current |-> 1]
            /\ FormatAnswer(GameOf(GAME_369_STATE', game_dicts', r).current + 1) = <<"2">>]_vars

\* C26 witness: a game that has run up to 7 is started again and is at 1,
\* and so is the game of a room that had none
C26_Witness ==
  \E r, q \in Rooms :
    /\ GameOf(GAME_369_STATE, game_dicts, r) = [active |-> TRUE, current |-> 7]
    /\ q \notin DOMAIN GAME_369_STATE
    /\ LET res == GameCommandIn(GAME_369_STATE, game_dicts, r, "start")
           fresh == GameCommandIn(GAME_369_STATE, game_dicts, q, "start")
       IN  /\ GameOf(res.reg, res.dicts, r) = [active |-> TRUE, current |-> 1]
           /\ GameOf(fresh.reg, fresh.dicts, q) = [active |-> TRUE, current |-> 1]

\* ------------------------------------------------------------------- C27
\* the text is not a command
NonCommand(text) == text = <<>> \/ text[1] \notin {"!", "/"}

\* the outcome of a message with this text in the game of room r that stands at
\* the counter c: accepted, the counter moves on by one, or by two when the bot
\* takes the turn after it, and the game stays active; or the game ends and
\* the room's dict is removed
AcceptedOrEnded(r, text, bot_joins) ==
  LET c == GameOf(GAME_369_STATE, game_dicts, r).current
      res == TurnIn(GAME_369_STATE, game_dicts, r, text, bot_joins)
      after == GameOf(res.reg, res.dicts, r)
  IN  IF NormalizeInput(text) = FormatAnswer(c + 1)
        THEN /\ r \in DOMAIN res.reg
             /\ after = [active |-> TRUE, current |-> IF bot_joins THEN c + 2 ELSE c + 1]
        ELSE /\ r \notin DOMAIN res.reg
             /\ ~after.active

\* a message without text changes nothing
NoTextNoChange(r, bot_joins) ==
  LET res == TurnIn(GAME_369_STATE, game_dicts, r, <<>>, bot_joins)
  IN  res.reg = GAME_369_STATE /\ res.dicts = game_dicts

\* messages to a room without a running game leave it without one
IgnoredUntilStart ==
  \A r \in Rooms, text \in PlayTexts, bot_joins \in BOOLEAN :
    LET res == TurnIn(GAME_369_STATE, game_dicts, r, text, bot_joins)
    IN  ~GameOf(GAME_369_STATE, game_dicts, r).active
          => ~GameOf(res.reg, res.dicts, r).active

\* C27 as stated: in a running game every message that is not a command is
\* accepted when its normalized text is the answer expected, and ends the
\* game otherwise
C27_Original ==
  /\ \A r \in Rooms, text \in PlayTexts, bot_joins \in BOOLEAN :
       (GameOf(GAME_369_STATE, game_dicts, r).active /\ NonCommand(text))
         => AcceptedOrEnded(r, text, bot_joins)
  /\ IgnoredUntilStart

\* C27 amended: in a running game every message that is not a command and
\* whose text is not empty is accepted when its normalized text is the answer
\* expected, the counter moving on by one or, with the bot's turn, by two, and
\* ends the game otherwise, the room's dict being removed; a message without
\* text changes nothing; messages to a room without a running game are ignored
C27_Amended ==
  /\ \A r \in Rooms, text \in PlayTexts, bot_joins \in BOOLEAN :
       (GameOf(GAME_369_STATE, game_dicts, r).active /\ NonCommand(text))
         => IF text = <<>>
              THEN NoTextNoChange(r, bot_joins)
              ELSE AcceptedOrEnded(r, text, bot_joins)
  /\ IgnoredUntilStart

\* C27 witness: in a game that stands at 2 a clap among other letters is
\* accepted and the bot's turn brings the counter to 4, while the number 3
\* ends the game
C27_Witness ==
  \E r \in Rooms :
    /\ GameOf(GAME_369_STATE, game_dicts, r) = [active |-> TRUE, current |-> 2]
    /\ LET ok == TurnIn(GAME_369_STATE, game_dicts, r, <<"x", Clap>>, TRUE)
           bad == TurnIn(GAME_369_STATE, game_dicts, r, <<"3">>, FALSE)
       IN  /\ GameOf(ok.reg, ok.dicts, r) = [active |-> TRUE, current |-> 4]
           /\ r \notin DOMAIN bad.reg

\* ------------------------------------------------------------------- C28
\* the number of digits 3, 6 and 9 of n, by arithmetic
RECURSIVE ClapDigits(_)
ClapDigits(n) ==
  IF n = 0 THEN 0
  ELSE (IF n % 10 \in {3, 6, 9} THEN 1 ELSE 0) + ClapDigits(n \div 10)

\* the number that a sequence of digit characters writes
RECURSIVE ValueOf(_)
ValueOf(str) ==
  IF str = <<>> THEN 0
  ELSE 10 * ValueOf(SubSeq(str, 1, Len(str) - 1))
         + (CHOOSE d \in 0..9 : DigitChars[d + 1] = str[Len(str)])

\* the answer for n is n written in decimal when n has no digit 3, 6 or 9,
\* and otherwise one clap for each such digit
AnswerIsRight(n) ==
  LET answer == FormatAnswer(n)
  IN  IF ClapDigits(n) = 0
        THEN /\ \A i \in 1..Len(answer) : IsDigit(answer[i])
             /\ answer[1] # "0"
             /\ ValueOf(answer) = n
        ELSE answer = [i \in 1..ClapDigits(n) |-> Clap]

PassedOver(r, text) ==
  \/ ~GameOf(GAME_369_STATE, game_dicts, r).active
  \/ text = <<>>
  \/ text[1] \in {"!", "/"}

\* C29: a message to a room without a running game, a message without text
\* and a message that begins with / or ! leave the active flag and the counter
\* of every room as they were
C29_PassedOverUnchanged ==
  \A r \in Rooms, text \in PlayTexts, bot_joins \in BOOLEAN :
    PassedOver(r, text)
      => LET res == TurnIn(GAME_369_STATE, game_dicts, r, text, bot_joins)
         IN  \A q \in Rooms :
               GameOf(res.reg, res.dicts, q) = GameOf(GAME_369_STATE, game_dicts, q)

\* C29 witness: a room whose game stands at 2 gets a command and a message
\* without text, a room without a dict gets the number 1, and neither changes
C29_Witness ==
  \E r, q \in Rooms :
    /\ GameOf(GAME_369_STATE, game_dicts, r) = [active |-> TRUE, current |-> 2]
    /\ q \notin DOMAIN GAME_369_STATE
    /\ TurnIn(GAME_369_STATE, game_dicts, r, <<"/", "x">>, TRUE).reply = "turn:skip"
    /\ TurnIn(GAME_369_STATE, game_dicts, r, <<>>, TRUE).reply = "turn:skip"
    /\ TurnIn(GAME_369_STATE, game_dicts, q, <<"1">>, TRUE).reply = "turn:idle"

\* ------------------------------------------------------------------- C30
\* the registry was last used on another date than today
DateChanged == PARTY_STATE_DATE # NoDate /\ PARTY_STATE_DATE # today

\* this step is a create command that ran on an empty registry
CreatedAfresh ==
  \E r \in Rooms, u \in Users, param \in CreateParams :
    \/ /\ create_party(r, u, param)
       /\ PARTY_STATE' = CreateResult(EmptyDict, r, u, param).ps
    \/ /\ create_raid_party(r, u, param)
       /\ PARTY_STATE' = CreateRaidResult(EmptyDict, r, u, param).ps

\* C30: the first party command handled on another date than the command
\* before it works on an empty registry: after it the registry is empty, or
\* holds the one party that the command itself has created, and the date of
\* the registry is today's
C30_NoPartySurvivesDateChange ==
  [][(DateChanged /\ today' = today)
       => /\ PARTY_STATE_DATE' = today
          /\ PARTY_STATE' = EmptyDict \/ CreatedAfresh]_vars

\* C30 witness: two parties, one of them with members beside its owner, on
\* the day after the registry was last used; a join finds no party
C30_Witness ==
  /\ DateChanged
  /\ Cardinality(Slots(PARTY_STATE)) = 2
  /\ ExtraCount(PARTY_STATE) >= 1
  /\ \E r \in Rooms, u \in Users :
       /\ r \in DOMAIN PARTY_STATE
       /\ JoinIn(Ensured[1], r, u, <<>>).reply = "join:none"
       /\ JoinIn(PARTY_STATE, r, u, <<>>).reply # "join:none"

\* ---------------------------------------------------------------- C31
\* the member list without its k-th entry (k counted from 1), the others in
\* their order
WithoutKth(members, k) ==
  [i \in 1..(Len(members) - 1) |-> IF i < k THEN members[i] ELSE members[i + 1]]

\* the index of a kick command names a member other than the owner
ValidKick(party, param) ==
  param.num /\ param.n >= 2 /\ param.n <= Len(party.members)

\* what kick_member may do to the registry: nothing when the sender owns no
\* party in the room; otherwise only the member list of the sender's party
\* changes, by losing its k-th entry when k is valid and not at all when the
\* index is no number, 0, 1 or beyond the member count
KickEffect(r, u, param) ==
  IF ~Owns(PARTY_STATE, r, u)
  THEN PARTY_STATE' = PARTY_STATE
  ELSE /\ Owns(PARTY_STATE', r, u)
       /\ PARTY_STATE' =
            [PARTY_STATE EXCEPT ![r][u].members = PARTY_STATE'[r][u].members]
       /\ PARTY_STATE'[r][u].members =
            IF ValidKick(PARTY_STATE[r][u], param)
            THEN WithoutKth(PARTY_STATE[r][u].members, param.n)
            ELSE PARTY_STATE[r][u].members

\* C31 as stated: every kick command has the effect above
C31_Original ==
  [][\A r \in Rooms, u \in Users, param \in KickParams :
       kick_member(r, u, param) => KickEffect(r, u, param)]_vars

\* C31 amended: a kick command handled on the date the registry was last used
\* changes nothing when the sender owns no party in the room, never removes
\* member 1, removes exactly the k-th member for a valid k >= 2 and keeps the
\* others in order, and changes nothing for an index that is no number, 0 or
\* beyond the member count
C31_Amended ==
  [][\A r \in Rooms, u \in Users, param \in KickParams :
       (SameDay /\ kick_member(r, u, param)) => KickEffect(r, u, param)]_vars

\* C31 witness: on the same day the owner of a three-member party, in a
\* registry that holds a second party, kicks member 2: members 1 and 3 remain
C31_Witness ==
  \E r \in Rooms, u \in Users :
    /\ SameDay /\ Owns(PARTY_STATE, r, u)
    /\ Cardinality(Slots(PARTY_STATE)) = 2
    /\ Len(PARTY_STATE[r][u].members) = 3
    /\ PARTY_STATE[r][u].members[2] # PARTY_STATE[r][u].members[3]
    /\ KickIn(PARTY_STATE, r, u, Num(2)).ps[r][u].members
         = <<PARTY_STATE[r][u].members[1], PARTY_STATE[r][u].members[3]>>
    /\ KickIn(PARTY_STATE, r, u, Num(4)).reply = "kick:nomember"
    /\ KickIn(PARTY_STATE, r, u, Word("x")).reply = "kick:usage"

\* ---------------------------------------------------------------- C32
\* the step is a command of the owner o that removes o's party in room r
OwnerRemoves(r, o) == delete_party(r, o) \/ leave_party(r, o)

\* the party of owner o in room r is still there, under the same party id,
\* with its owner first in a non-empty member list
PartyKept(r, o) ==
  /\ Owns(PARTY_STATE', r, o)
  /\ PARTY_STATE'[r][o].party_id = PARTY_STATE[r][o].party_id
  /\ Len(PARTY_STATE'[r][o].members) >= 1
  /\ PARTY_STATE'[r][o].members[1] = PARTY_STATE[r][o].members[1]

\* C32: a party leaves the registry only by delete_party or leave_party of
\* its own owner, or by the daily reset; every other step, whoever sends the
\* command, keeps the party and leaves its member list non-empty
C32_OnlyOwnerRemoves ==
  [][\A r \in Rooms, o \in Users :
       (Owns(PARTY_STATE, r, o) /\ SameDay /\ ~OwnerRemoves(r, o))
         => PartyKept(r, o)]_vars

\* C32 witness: on the same day a party holds its owner and another user, who
\* leaves it: the party stays with the owner alone, while the owner leaving
\* removes it
C32_Witness ==
  \E r \in Rooms, o \in Users, u \in Users :
    /\ u # o
    /\ SameDay /\ Owns(PARTY_STATE, r, o)
    /\ MemberIds(PARTY_STATE[r][o]) = {o, u}
    /\ LeaveIn(PARTY_STATE, r, u).reply = "leave:ok"
    /\ MemberIds(LeaveIn(PARTY_STATE, r, u).ps[r][o]) = {o}
    /\ ~Owns(LeaveIn(PARTY_STATE, r, o).ps, r, o)

\* ---------------------------------------------------------------- C33
\* the tickets are those of before the step, each of them drawn
AllMarkedDrawn ==
  /\ Len(lotto') = Len(lotto)
  /\ \A i \in 1..Len(lotto) : lotto'[i] = [lotto[i] EXCEPT !.is_drawn = TRUE]

\* C33: a draw leaves no ticket undrawn; every ticket it marks as drawn is
\* in a room that got a winning number in this run and is paid against that
\* number; the tickets drawn before pay nothing, so that no ticket is scored
\* in two draws
C33_DrawnOnceAndScored ==
  [][execute_probability_draw
       => /\ Undrawn(lotto') = {}
          /\ AllMarkedDrawn
          /\ \A i \in Undrawn(lotto) : lotto[i].room_id \in DOMAIN announced'
          /\ \A u \in DOMAIN users :
               users'[u].points - users[u].points
                 = SumOver([i \in 1..Len(lotto) |->
                              IF lotto[i].is_drawn THEN 0
                              ELSE Owed(lotto[i].numbers, announced'[lotto[i].room_id])],
                           {i \in 1..Len(lotto) : lotto[i].user_id = u})]_vars

\* C33 witness: a user holds two drawn tickets with the same numbers, which
\* two draws have scored, the first with the first prize and the second with
\* nothing; no ticket is undrawn
C33_Witness ==
  \E u \in DOMAIN users :
    /\ Len(lotto) = 2 /\ Undrawn(lotto) = {}
    /\ lotto[1].user_id = u /\ lotto[2].user_id = u
    /\ lotto[1].room_id = lotto[2].room_id
    /\ lotto[1].numbers = lotto[2].numbers
    /\ users[u].points = FirstPrize
    /\ announced[lotto[2].room_id] # lotto[2].numbers

\* ---------------------------------------------------------------- C34
\* C34: in every room with undrawn tickets, when no ticket's roll is 1 the
\* winning number, whatever random numbers step 2 gets, is held by no undrawn
\* ticket of the room
C34_NoPrizeWithoutRoll ==
  \A rid \in DrawRooms(lotto), tries \in TrySeqs, last \in LottoSample :
    WinningNumber(lotto, rid, 0, tries, last) \notin TakenNumbers(lotto, rid)

\* ---------------------------------------------------------------- C35
\* SpecStreak: attendance over enough days for a run of check-ins, a day
\* without one, and a check-in after it
StreakDays == 3

NextStreakDay ==
  /\ today < StreakDays
  /\ today' = today + 1
  /\ UNCHANGED <<hostVars, imageVars, schedVars, partyVars, raceVars, gameVars, userVars>>

StreakNext ==
  \/ \E u \in Users : check_in(u) /\ ChatBound
  \/ NextStreakDay

SpecStreak == Init /\ [][StreakNext]_vars

\* C35: a check-in of a user who has not checked in today sets
\* consecutive_checkin to the former value plus 1 when last_checkin_date is the
\* day before today and to 1 otherwise, adds 1 to total_checkin and sets
\* last_checkin_date to today
C35_StreakCount ==
  [][\A u \in Users :
       (check_in(u) /\ ~CheckedInToday(u))
         => /\ users'[u].consecutive_checkin =
                 IF RowOf(users, u).last_checkin_date = today - 1
                 THEN RowOf(users, u).consecutive_checkin + 1
                 ELSE 1
            /\ users'[u].total_checkin = RowOf(users, u).total_checkin + 1
            /\ users'[u].last_checkin_date = today]_vars

\* C35 witness: one user has checked in on three days in a row, another on
\* two days in a row and again after a day without a check-in
C35_Witness ==
  \E u \in DOMAIN users, v \in DOMAIN users :
    /\ users[u].total_checkin = 3 /\ users[u].consecutive_checkin = 3
    /\ users[v].total_checkin = 3 /\ users[v].consecutive_checkin = 1
    /\ users[u].last_checkin_date = today /\ users[v].last_checkin_date = today

\* ---------------------------------------------------------------- C36
\* SpecPoints: everything that changes points, the commands handled one after
\* the other within one calendar date: check-ins, purchases, the admin's shop
\* commands (int() takes a price below zero too), lottery tickets and draws
PointPrices == {-5, 5, 20}

PointAddParams == {<<Word("a"), Num(pr), Word("d")>> : pr \in PointPrices}

PointsNext ==
  \/ \E u \in Users : check_in(u) /\ ChatBound
  \/ \E u \in Users : purchase(u, "a") /\ ChatBound
  \/ \E u \in Users, parts \in PointAddParams : shop_add(u, parts) /\ ChatBound
  \/ \E u \in Users : shop_delete(u, "a") /\ ChatBound
  \/ \E u \in Users : lotto_auto(u, 1, 0) /\ ChatBound
  \/ execute_probability_draw

SpecPoints == Init /\ [][PointsNext]_vars

\* C36: every user's points are at least 0
C36_PointsNeverNegative ==
  \A u \in DOMAIN users : users[u].points >= 0

\* C36 witness: a user has spent all their points, and a purchase of an item
\* of the shop is refused for want of points
C36_Witness ==
  \E u \in DOMAIN users, nm \in DOMAIN items :
    /\ users[u].points = 0 /\ users[u].spent_points = CheckinPoints
    /\ items[nm].price > 0
    /\ PurchaseIn(users, items, inventory, u, nm).reply = "buy:poor"

\* ---------------------------------------------------------------- C37
\* the registries that the commands of user u in room r can leave, the daily
\* reset done
AfterCommand(r, u) ==
  {CreateResult(Ensured[1], r, u, param).ps : param \in CreateParams}
    \cup {CreateRaidResult(Ensured[1], r, u, param).ps : param \in CreateParams}
    \cup {DeleteIn(Ensured[1], r, u).ps, LeaveIn(Ensured[1], r, u).ps}
    \cup {AddMemberIn(Ensured[1], r, u, param).ps : param \in AddParams}
    \cup {KickIn(Ensured[1], r, u, param).ps : param \in KickParams}
    \cup {JoinIn(Ensured[1], r, u, tokens).ps : tokens \in JoinParams}

\* the registries that the read-only commands leave
AfterReading(r, u) ==
  {StatusIn(Ensured[1], r).ps, PromoteIn(Ensured[1], r, u).ps, HelpIn(Ensured[1]).ps}

\* C37: apart from the daily reset, a command handled in room r leaves the
\* parties of every other room as they are, and show_party_status,
\* promote_party and show_help leave the whole registry as it is
C37_OtherRoomsUntouched ==
  \A r \in Rooms, u \in Users :
    /\ \A ps \in AfterCommand(r, u) \cup AfterReading(r, u) :
         \A other \in Rooms \ {r} : RoomParties(ps, other) = RoomParties(Ensured[1], other)
    /\ \A ps \in AfterReading(r, u) : ps = Ensured[1]

\* C37 witness: both rooms hold a party on the same day; in room r the owner
\* can delete the party and another user can join it, the listing and the
\* promotion answer with the party, and the other room's party is a joined one
C37_Witness ==
  \E r \in Rooms, u \in Users, v \in Users :
    /\ SameDay /\ DOMAIN PARTY_STATE = Rooms
    /\ DeleteIn(PARTY_STATE, r, u).reply = "delete:ok"
    /\ r \notin DOMAIN DeleteIn(PARTY_STATE, r, u).ps
    /\ JoinIn(PARTY_STATE, r, v, <<Num(1)>>).ps # PARTY_STATE
    /\ StatusIn(PARTY_STATE, r).reply = "status:list"
    /\ PromoteIn(PARTY_STATE, r, u).reply = "promote:ok"
    /\ \E other \in Rooms \ {r} :
         \E o \in DOMAIN RoomParties(PARTY_STATE, other) :
           Len(PARTY_STATE[other][o].members) >= 2

\* ======================================================== text2image
\* --------------------------------------------------- get_max_font_size
\* max_search_size is at most MaxFontSize (500 where add_default_text calls
\* it), widths and image widths are at most MaxWidth
MaxFontSize == 4

MaxWidth == 3

FontSizes == 1..MaxFontSize

\* the width multiline_textsize gives the text at each font size: any
\* function of the size, whether it grows with the size or not
WidthTables == [FontSizes -> 1..MaxWidth]

\* best_size = None
NoSize == 0

\* the loop body with the search going down after a size that fits
FontLoop_Down(c) ==
  LET mid == (c.low + c.high) \div 2
      w == c.width[mid]
  IN  IF w <= c.target_width
      THEN [c EXCEPT !.best_size = mid, !.high = mid - 1]
      ELSE [c EXCEPT !.high = mid - 1]

\* one pass of the body of `while low <= high`
FontLoop(c) ==
  LET mid == (c.low + c.high) \div 2
      w == c.width[mid]
  IN  IF w <= c.target_width
      THEN [c EXCEPT !.best_size = mid, !.low = mid + 1]
      ELSE [c EXCEPT !.high = mid - 1]

\* get_max_font_size is called: the assignments before the loop.  One call is
\* followed from here to its return.
get_max_font_size(image_width, width, max_search_size) ==
  /\ font_call.pc = "idle"
  /\ font_call' = [pc |-> "loop", image_width |-> image_width, width |-> width,
                   max_search_size |-> max_search_size,
                   target_width |-> image_width, low |-> 1,
                   high |-> max_search_size, best_size |-> NoSize]
  /\ UNCHANGED <<hostVars, schedVars, partyVars, raceVars, gameVars, today,
                 userVars, personal_images, last_saved>>

\* the loop test holds and the body runs once
font_loop ==
  /\ font_call.pc = "loop"
  /\ font_call.low <= font_call.high
  /\ font_call' = FontLoop(font_call)
  /\ UNCHANGED <<hostVars, schedVars, partyVars, raceVars, gameVars, today,
                 userVars, personal_images, last_saved>>

\* the loop test fails: return best_size
font_return ==
  /\ font_call.pc = "loop"
  /\ font_call.low > font_call.high
  /\ font_call' = [font_call EXCEPT !.pc = "done"]
  /\ UNCHANGED <<hostVars, schedVars, partyVars, raceVars, gameVars, today,
                 userVars, personal_images, last_saved>>

FontNext ==
  \/ \E image_width \in 0..MaxWidth, width \in WidthTables,
        max_search_size \in 0..MaxFontSize :
       get_max_font_size(image_width, width, max_search_size)
  \/ font_loop
  \/ font_return

SpecFont == Init /\ [][FontNext]_vars

\* a call that has started goes on: nothing but the loop itself can hold it up
SpecFontLive == SpecFont /\ WF_vars(font_loop) /\ WF_vars(font_return)

\* ---------------------------------------------------------------- C38
\* the text width does not shrink as the font grows, over the sizes searched
NonDecreasing(c) ==
  \A s \in 1..c.max_search_size, t \in 1..c.max_search_size :
    s <= t => c.width[s] <= c.width[t]

\* the sizes of the search range at which the text fits the image
Fitting(c) == {s \in 1..c.max_search_size : c.width[s] <= c.image_width}

\* the value a finished call returns is the largest fitting size, or None
\* when there is none
LargestFitting(c) ==
  IF Fitting(c) = {}
  THEN c.best_size = NoSize
  ELSE c.best_size \in Fitting(c) /\ \A s \in Fitting(c) : s <= c.best_size

\* C38: every call of get_max_font_size returns, and when the width is
\* non-decreasing in the font size it returns the largest size of
\* 1..max_search_size whose width is at most image_width, None when no size
\* fits
C38_LargestFittingSize ==
  /\ [](font_call.pc = "done" /\ NonDecreasing(font_call) => LargestFitting(font_call))
  /\ (font_call.pc = "loop") ~> (font_call.pc = "done")

\* C38 witness: a call over all sizes whose width grows with the size has
\* returned a size below max_search_size at which the text fits, the next
\* size being too wide
C38_Witness ==
  /\ font_call.pc = "done"
  /\ font_call.max_search_size = MaxFontSize
  /\ NonDecreasing(font_call)
  /\ font_call.best_size \in 2..(MaxFontSize - 1)
  /\ font_call.width[font_call.best_size + 1] > font_call.image_width
  /\ font_call.width[1] < font_call.width[MaxFontSize]

\* ------------------------------------------------- personal image store
\* the value of an id that is None
NoId == 0

\* str(sender_id)
SenderKeys == <<"1", "2", "3", "4">>

Str(id) == SenderKeys[id]

\* the chats of sender u.  Every handler of the repository reads the sender
\* from chat.sender; _get_sender_id reads chat.message.sender_id and
\* chat.message.sender.id, which a message may carry or not.
ChatsOf(u) ==
  {[sender |-> u,
    message |-> [sender_id |-> sid, sender |-> [present |-> p, id |-> mid]]] :
     sid \in {NoId, u}, p \in BOOLEAN, mid \in {NoId, u}}

Chats == UNION {ChatsOf(u) : u \in Users}

\* _get_sender_id
GetSenderId(chat) ==
  LET first == chat.message.sender_id
      second == IF first = NoId /\ chat.message.sender.present
                THEN chat.message.sender.id
                ELSE first
  IN  IF second = NoId THEN "unknown" ELSE Str(second)

\* images: a mode and the picture
Modes == {"RGBA", "RGB", "CMYK"}

Pictures == {"p", "q"}

Images == [mode : Modes, picture : Pictures]

NoImage == [mode |-> "None", picture |-> "None"]

\* img.save(buf, format="PNG"): PNG has no CMYK, the plugin raises OSError
PngWritable(img) == img.mode # "CMYK"

PngBytes(img) == [format |-> "PNG", mode |-> img.mode, picture |-> img.picture]

\* Image.open(BytesIO(raw_bytes))
PngOpen(raw_bytes) == [mode |-> raw_bytes.mode, picture |-> raw_bytes.picture]

\* img.convert("RGBA")
ConvertRGBA(img) == [mode |-> "RGBA", picture |-> img.picture]

\* save_personal_image: INSERT ... ON CONFLICT(sender_id) DO UPDATE; an image
\* that cannot be written as PNG raises before the table is touched
SaveIn(store, chat, img) ==
  IF PngWritable(img)
  THEN [store |-> DictSet(store, GetSenderId(chat), PngBytes(img)), raised |-> FALSE]
  ELSE [store |-> store, raised |-> TRUE]

\* load_personal_image: the image returned, NoImage for None
LoadIn(store, chat) ==
  IF GetSenderId(chat) \notin DOMAIN store
  THEN NoImage
  ELSE ConvertRGBA(PngOpen(store[GetSenderId(chat)]))

save_personal_image(chat, img) ==
  /\ personal_images' = SaveIn(personal_images, chat, img).store
  /\ last_saved' = IF SaveIn(personal_images, chat, img).raised
                   THEN last_saved
                   ELSE DictSet(last_saved, chat.sender, [img |-> img, chat |-> chat])
  /\ UNCHANGED <<hostVars, schedVars, partyVars, raceVars, gameVars, today,
                 userVars, font_call>>

\* load_personal_image reads the table and returns
load_personal_image(chat) ==
  /\ LoadIn(personal_images, chat) \in Images \cup {NoImage}
  /\ UNCHANGED vars

ImageNext ==
  \/ \E chat \in Chats, img \in Images : save_personal_image(chat, img)
  \/ \E chat \in Chats : load_personal_image(chat)

SpecImage == Init /\ [][ImageNext]_vars

\* ---------------------------------------------------------------- C39
\* C39: a sender who has saved an image loads, with the chat of the save, the
\* image of their latest save (as RGBA), whatever the other senders have saved
\* since; a sender who has never saved one loads None
C39_OneImagePerSender ==
  \A u \in Users :
    IF u \in DOMAIN last_saved
    THEN LoadIn(personal_images, last_saved[u].chat) = ConvertRGBA(last_saved[u].img)
    ELSE \A chat \in ChatsOf(u) : LoadIn(personal_images, chat) = NoImage
=============================================================================
